---- MODULE Spec2Model ----
(***************************************************************************)
(* Model of the SCMLex hypergraph builder (build_hypergraph.py) and its    *)
(* query engine (query_hypergraph.py).                                     *)
(*                                                                         *)
(* The builder reads one ingest payload and runs six passes over it        *)
(* (principles, rules, concepts, domains, relationships, derivations),     *)
(* then computes statistics.  The query engine works on the finished       *)
(* snapshot.  Node ids are non-empty strings (the extractor makes them     *)
(* with uuid4), so the truth tests `if not start_id` of the queries are    *)
(* tests for "name not in the index".                                      *)
(***************************************************************************)
EXTENDS Integers, Sequences, FiniteSets, TLC

VARIABLES
    payload,      \* the ingest document read by load_from_tuples
    pc,           \* position of load_from_tuples
    graph_nodes,  \* self.graph: node ids in insertion order
    node_attr,    \* self.graph: node id -> attribute record
    graph_edges,  \* self.graph: edges in insertion order
    hyperedges,   \* self.hyperedges
    node_index,   \* self.node_index: name -> node id
    stats,        \* self.stats
    result        \* what the last query returned

vars == <<payload, pc, graph_nodes, node_attr, graph_edges, hyperedges,
          node_index, stats, result>>

(***************************************************************************)
(* Bounds of the explored payloads and query arguments.                    *)
(***************************************************************************)
MaxDefs == 2        \* node definitions in a payload of the naming family
MaxFan == 2         \* targets of a relationship / sources of a derivation
MaxLength == 2      \* largest max_length given to find_all_paths
MaxSteps == 2       \* most steps of a chain handed to compute_path_confidence
MaxLinks == 3       \* relationship records in a payload of the path family

(***************************************************************************)
(* Values.                                                                 *)
(***************************************************************************)
Absent == "<absent>"     \* a key that the record does not have
NoneRef == "<None>"      \* Python None used as an endpoint reference
EmptyStr == ""           \* the default of deriv.get('target_node', '')
Unknown == "zz"          \* a reference that names nothing

Ids == {"n1", "n2", "n3"}
Groups == {"principles", "rules", "concepts", "domains",
           "relationships", "derivations"}

SeqsUpTo(S, n) == UNION {[1..k -> S] : k \in 0..n}

RECURSIVE SeqToSet(_)
SeqToSet(s) == IF s = <<>> THEN {} ELSE {Head(s)} \cup SeqToSet(Tail(s))

(***************************************************************************)
(* Defaults the builder and the queries fill in, as hundredths.            *)
(***************************************************************************)
PrincipleConfidence == 100   \* p.get('confidence', 1.0)
RuleConfidence == 95         \* r.get('confidence', 0.95)
PrincipleLevel == 1          \* level=1
RuleLevel == 2               \* r.get('level', 2)
Strength == 90               \* rel.get('strength', 0.9)
ConfidenceImpact == 95       \* deriv.get('confidence_impact', 0.95)

PrincipleKeys == {"node_type", "level", "name", "description", "domains",
                  "confidence", "provenance", "inference_type",
                  "application_context"}
RuleKeys == {"node_type", "level", "name", "description", "jurisdiction",
             "legal_domain", "confidence", "derived_from", "inference_type"}
ConceptKeys == {"node_type", "name", "description", "domains"}
DomainKeys == {"node_type", "name"}

NoNumber == 0 - 1        \* a numeric key that the record does not have
EmptyMap == [x \in {} |-> x]

\* dict.get(key, default), for a string and for a number
Get(rec_value, default) == IF rec_value = Absent THEN default ELSE rec_value
GetNum(rec_value, default) ==
    IF rec_value = NoNumber THEN default ELSE rec_value

(***************************************************************************)
(* networkx: MultiDiGraph.add_node, has_node, add_edge.                    *)
(***************************************************************************)
HasNode(nodes, n) == n \in SeqToSet(nodes)

\* add_node(node_id, **attr): a new node gets the attributes; an existing
\* node keeps its place and its other attributes, and the given ones are
\* overwritten.
AddNode(g, node_id, new) ==
    IF HasNode(g.nodes, node_id)
    THEN [g EXCEPT !.attr[node_id] =
            [keys |-> @.keys \cup new.keys,
             node_type |-> new.node_type,
             name |-> new.name,
             description |-> IF "description" \in new.keys
                             THEN new.description ELSE @.description,
             domains |-> IF "domains" \in new.keys
                         THEN new.domains ELSE @.domains,
             level |-> IF "level" \in new.keys THEN new.level ELSE @.level,
             confidence |-> IF "confidence" \in new.keys
                            THEN new.confidence ELSE @.confidence]]
    ELSE [g EXCEPT !.nodes = Append(@, node_id),
                   !.attr = (node_id :> new) @@ @]

\* the key networkx gives a new edge u -> v: the number of edges u -> v
NewEdgeKey(edges, u, v) ==
    Cardinality({i \in 1..Len(edges) : edges[i].u = u /\ edges[i].v = v})

AddEdge(edges, u, v, data) ==
    Append(edges, [u |-> u, v |-> v, key |-> NewEdgeKey(edges, u, v),
                   edge_type |-> data.edge_type,
                   hyperedge_id |-> data.hyperedge_id,
                   inference_type |-> data.inference_type,
                   confidence_impact |-> data.confidence_impact,
                   relationship_name |-> data.relationship_name,
                   strength |-> data.strength])

(***************************************************************************)
(* _add_principles, _add_rules, _add_concepts, _add_domains.               *)
(***************************************************************************)
NodeRecord(group, d) ==
    CASE group = "principles" ->
           [keys |-> PrincipleKeys, node_type |-> "principle",
            name |-> Get(d.name, EmptyStr),
            description |-> Get(d.description, EmptyStr),
            domains |-> d.domains,
            level |-> PrincipleLevel,
            confidence |-> GetNum(d.confidence, PrincipleConfidence)]
      [] group = "rules" ->
           [keys |-> RuleKeys, node_type |-> "rule",
            name |-> Get(d.name, EmptyStr),
            description |-> Get(d.description, EmptyStr),
            domains |-> <<>>,
            level |-> GetNum(d.level, RuleLevel),
            confidence |-> GetNum(d.confidence, RuleConfidence)]
      [] group = "concepts" ->
           [keys |-> ConceptKeys, node_type |-> "concept",
            name |-> Get(d.name, EmptyStr),
            description |-> Get(d.description, EmptyStr),
            domains |-> d.domains,
            level |-> NoNumber,
            confidence |-> NoNumber]
      [] group = "domains" ->
           [keys |-> DomainKeys, node_type |-> "domain",
            name |-> Get(d.name, EmptyStr),
            description |-> Absent, domains |-> <<>>,
            level |-> NoNumber, confidence |-> NoNumber]

\* an index that keeps the first node of a name
IndexName_FirstWins(index, d) ==
    IF d.name = Absent \/ d.name \in DOMAIN index THEN index
    ELSE (d.name :> d.node_id) @@ index

\* if 'name' in p: self.node_index[p['name']] = node_id
IndexName(index, d) ==
    IF d.name = Absent THEN index
    ELSE (d.name :> d.node_id) @@ index

\* one iteration of the loop of an _add_<group> method
AddNodeDef(g, group, d) ==
    [AddNode(g, d.node_id, NodeRecord(group, d))
        EXCEPT !.index = IndexName(g.index, d)]

RECURSIVE AddNodeDefs(_, _, _)
AddNodeDefs(g, group, defs) ==
    IF defs = <<>> THEN g
    ELSE AddNodeDefs(AddNodeDef(g, group, Head(defs)), group, Tail(defs))

(***************************************************************************)
(* _add_relationships and _add_derivations.                                *)
(***************************************************************************)
\* self.node_index.get(ref, ref)
Resolve(index, ref) == IF ref \in DOMAIN index THEN index[ref] ELSE ref

\* targets = rel.get('target_nodes', [rel.get('target_node')]), made a list
NormTargets(rel) ==
    CASE rel.form = "target_nodes" -> rel.targets
      [] rel.form = "target_nodes_scalar" -> <<rel.targets[1]>>
      [] rel.form = "target_node" -> <<rel.targets[1]>>
      [] rel.form = "neither" -> <<NoneRef>>

RelationshipData(rel) ==
    [edge_type |-> "relationship", hyperedge_id |-> rel.hyperedge_id,
     inference_type |-> Absent, confidence_impact |-> NoNumber,
     relationship_name |-> Get(rel.relationship_name, "related-to"),
     strength |-> GetNum(rel.strength, Strength)]

DerivationData(deriv) ==
    [edge_type |-> "derivation", hyperedge_id |-> deriv.hyperedge_id,
     inference_type |-> Get(deriv.inference_type, "deductive"),
     confidence_impact |->
         GetNum(deriv.confidence_impact, ConfidenceImpact),
     relationship_name |-> Absent, strength |-> NoNumber]

\* a guard that forgets the target
BothExist_SourceOnly(nodes, source_id, target_id) ==
    HasNode(nodes, source_id)

\* the guard of both edge loops
BothExist(nodes, source_id, target_id) ==
    HasNode(nodes, source_id) /\ HasNode(nodes, target_id)

RECURSIVE RelationshipEdges_Break(_, _, _, _)
\* an inner loop that stops at the first target it cannot join
RelationshipEdges_Break(g, edges, rel, targets) ==
    IF targets = <<>> THEN edges
    ELSE LET source_id == Resolve(g.index, rel.source_node)
             target_id == Resolve(g.index, Head(targets))
         IN IF HasNode(g.nodes, source_id) /\ HasNode(g.nodes, target_id)
            THEN RelationshipEdges_Break(
                     g, AddEdge(edges, source_id, target_id,
                                RelationshipData(rel)), rel, Tail(targets))
            ELSE edges

RECURSIVE RelationshipEdges(_, _, _, _)
\* the inner loop of _add_relationships over the targets of one record
RelationshipEdges(g, edges, rel, targets) ==
    IF targets = <<>> THEN edges
    ELSE LET source_id == Resolve(g.index, rel.source_node)
             target_id == Resolve(g.index, Head(targets))
             next == IF BothExist(g.nodes, source_id, target_id)
                     THEN AddEdge(edges, source_id, target_id,
                                  RelationshipData(rel))
                     ELSE edges
         IN RelationshipEdges(g, next, rel, Tail(targets))

\* a builder that retains every relationship record
KeepRelationship_Always(rel) == TRUE

\* if len(targets) > 1: self.hyperedges.append(rel)
KeepRelationship(rel) == Len(NormTargets(rel)) > 1

RECURSIVE AddRelationshipRecs(_, _)
\* the outer loop of _add_relationships
AddRelationshipRecs(g, rels) ==
    IF rels = <<>> THEN g
    ELSE LET rel == Head(rels)
             edges == RelationshipEdges(g, g.edges, rel, NormTargets(rel))
             kept == IF KeepRelationship(rel)
                     THEN Append(g.hyperedges, rel) ELSE g.hyperedges
         IN AddRelationshipRecs(
                [g EXCEPT !.edges = edges, !.hyperedges = kept], Tail(rels))

\* target_id = target_node
DerivationTarget(index, deriv) == Get(deriv.target_node, EmptyStr)

RECURSIVE DerivationEdges(_, _, _, _)
\* the inner loop of _add_derivations over the sources of one record
DerivationEdges(g, edges, deriv, sources) ==
    IF sources = <<>> THEN edges
    ELSE LET source_id == Resolve(g.index, Head(sources))
             target_id == DerivationTarget(g.index, deriv)
             next == IF BothExist(g.nodes, source_id, target_id)
                     THEN AddEdge(edges, source_id, target_id,
                                  DerivationData(deriv))
                     ELSE edges
         IN DerivationEdges(g, next, deriv, Tail(sources))

RECURSIVE AddDerivationRecs_IfJoined(_, _)
\* a builder that retains a derivation only when it made an edge
AddDerivationRecs_IfJoined(g, derivs) ==
    IF derivs = <<>> THEN g
    ELSE LET deriv == Head(derivs)
             edges == DerivationEdges(g, g.edges, deriv, deriv.source_nodes)
         IN AddDerivationRecs_IfJoined(
                [g EXCEPT !.edges = edges,
                          !.hyperedges = IF edges = g.edges THEN @
                                         ELSE Append(@, deriv)],
                Tail(derivs))

RECURSIVE AddDerivationRecs(_, _)
AddDerivationRecs(g, derivs) ==
    IF derivs = <<>> THEN g
    ELSE LET deriv == Head(derivs)
             edges == DerivationEdges(g, g.edges, deriv, deriv.source_nodes)
         IN AddDerivationRecs(
                [g EXCEPT !.edges = edges,
                          !.hyperedges = Append(g.hyperedges, deriv)],
                Tail(derivs))

(***************************************************************************)
(* _compute_statistics.                                                    *)
(***************************************************************************)
\* how many nodes carry the value `val` under the attribute `key`
CountNodes(nodes, attr, key, val) ==
    Cardinality({n \in SeqToSet(nodes) :
                    key \in DOMAIN attr[n] /\ attr[n][key] = val})

CountEdges(edges, etype) ==
    Cardinality({i \in 1..Len(edges) : edges[i].edge_type = etype})

\* Counter(...): only the values that occur are keys
Counter(counts) ==
    [k \in {x \in DOMAIN counts : counts[x] > 0} |-> counts[k]]

RECURSIVE WeakComponent(_, _)
\* the nodes joined to `seen` by edges taken in either direction
WeakComponent(edges, seen) ==
    LET more == {e.v : e \in {x \in SeqToSet(edges) : x.u \in seen}}
                \cup {e.u : e \in {x \in SeqToSet(edges) : x.v \in seen}}
    IN IF more \subseteq seen THEN seen
       ELSE WeakComponent(edges, seen \cup more)

\* connectivity asked of networkx without the guard for the empty graph,
\* taken to hold of no nodes
IsConnected_Unguarded(nodes, edges) ==
    \/ nodes = <<>>
    \/ WeakComponent(edges, {nodes[1]}) = SeqToSet(nodes)

\* nx.is_weakly_connected(graph) if number_of_nodes() > 0 else False
IsConnected(nodes, edges) ==
    IF Len(nodes) = 0 THEN FALSE
    ELSE WeakComponent(edges, {nodes[1]}) = SeqToSet(nodes)

\* round(x / y, digits) for x / y >= 0, in units of 10^-digits
RoundDiv(x, y) == (2 * x + y) \div (2 * y)

\* the domains list of the domain loop holds `d` this many times: a node
\* with 'domains' gives its domains, another with 'legal_domain' gives that
\* (a rule of these payloads has the default '')
RECURSIVE DomainCount(_, _, _)
DomainCount(nodes, attr, d) ==
    IF nodes = <<>> THEN 0
    ELSE LET data == attr[Head(nodes)]
         IN (IF "domains" \in data.keys
             THEN Cardinality({i \in 1..Len(data.domains) :
                                  data.domains[i] = d})
             ELSE IF "legal_domain" \in data.keys /\ d = EmptyStr
             THEN 1 ELSE 0)
            + DomainCount(Tail(nodes), attr, d)

ComputeStatistics(nodes, attr, edges, hypers) ==
    LET n == Len(nodes)
        m == Len(edges)
    IN [total_nodes |-> n,
        total_edges |-> m,
        total_hyperedges |-> Len(hypers),
        node_types |->
            Counter([t \in {"principle", "rule", "concept", "domain"} |->
                        CountNodes(nodes, attr, "node_type", t)]),
        edge_types |->
            Counter([t \in {"relationship", "derivation"} |->
                        CountEdges(edges, t)]),
        levels |->
            Counter([l \in {PrincipleLevel, RuleLevel} |->
                        CountNodes(nodes, attr, "level", l)]),
        top_domains |->
            Counter([d \in {"x", "y", EmptyStr} |->
                        DomainCount(nodes, attr, d)]),
        \* sum of degrees / nodes, in hundredths
        average_degree |-> IF n > 0 THEN RoundDiv(100 * 2 * m, n) ELSE 0,
        \* nx.density: m / (n * (n - 1)), in millionths
        density |-> IF n <= 1 \/ m = 0 THEN 0
                    ELSE RoundDiv(1000000 * m, n * (n - 1)),
        is_connected |-> IsConnected(nodes, edges)]

(***************************************************************************)
(* networkx traversal used by the queries: adjacency in insertion order,   *)
(* shortest_path (bidirectional breadth-first search) and                  *)
(* all_simple_paths (depth-first search over edges, cut at cutoff).        *)
(***************************************************************************)
RECURSIVE Dedup(_, _)
\* the first occurrences of s, in order, that are not in seen
Dedup(s, seen) ==
    IF s = <<>> THEN <<>>
    ELSE IF Head(s) \in seen THEN Dedup(Tail(s), seen)
    ELSE <<Head(s)>> \o Dedup(Tail(s), seen \cup {Head(s)})

RECURSIVE EdgesWhere(_, _, _)
\* the edges u -> v (either may be Absent for "any"), in insertion order
EdgesWhere(edges, u, v) ==
    IF edges = <<>> THEN <<>>
    ELSE (IF (u = Absent \/ Head(edges).u = u)
             /\ (v = Absent \/ Head(edges).v = v)
          THEN <<Head(edges)>> ELSE <<>>) \o EdgesWhere(Tail(edges), u, v)

RECURSIVE MapU(_)
MapU(es) == IF es = <<>> THEN <<>> ELSE <<Head(es).u>> \o MapU(Tail(es))
RECURSIVE MapV(_)
MapV(es) == IF es = <<>> THEN <<>> ELSE <<Head(es).v>> \o MapV(Tail(es))

\* G.succ[u] and G.pred[v]: neighbours in the order they were first joined
Successors(edges, u) == Dedup(MapV(EdgesWhere(edges, u, Absent)), {})
Predecessors(edges, v) == Dedup(MapU(EdgesWhere(edges, Absent, v)), {})

RECURSIVE EdgesTo(_, _, _)
EdgesTo(edges, u, nbrs) ==
    IF nbrs = <<>> THEN <<>>
    ELSE EdgesWhere(edges, u, Head(nbrs)) \o EdgesTo(edges, u, Tail(nbrs))

\* G.edges(u, keys=True): by neighbour, then by key
OutEdges(edges, u) == EdgesTo(edges, u, Successors(edges, u))

RECURSIVE PairsFrom(_, _, _)
\* the (v, w) pairs the nested loops of one search level visit, in order
PairsFrom(edges, level, forward) ==
    IF level = <<>> THEN <<>>
    ELSE LET v == Head(level)
             ws == IF forward THEN Successors(edges, v)
                   ELSE Predecessors(edges, v)
         IN [i \in 1..Len(ws) |-> <<v, ws[i]>>]
            \o PairsFrom(edges, Tail(level), forward)

RECURSIVE ScanLevel(_, _, _, _)
\* one level: mine is the map being grown, other the opposite one
ScanLevel(pairs, mine, other, fringe) ==
    IF pairs = <<>>
    THEN [found |-> FALSE, w |-> NoneRef, map |-> mine, fringe |-> fringe]
    ELSE LET v == Head(pairs)[1]
             w == Head(pairs)[2]
             isnew == w \notin DOMAIN mine
             mine2 == IF isnew THEN (w :> v) @@ mine ELSE mine
             fringe2 == IF isnew THEN Append(fringe, w) ELSE fringe
         IN IF w \in DOMAIN other
            THEN [found |-> TRUE, w |-> w, map |-> mine2, fringe |-> fringe2]
            ELSE ScanLevel(Tail(pairs), mine2, other, fringe2)

RECURSIVE BidirectionalPredSucc(_, _, _, _, _)
BidirectionalPredSucc(edges, pred, succ, forward_fringe, reverse_fringe) ==
    IF forward_fringe = <<>> \/ reverse_fringe = <<>>
    THEN [found |-> FALSE, w |-> NoneRef, pred |-> pred, succ |-> succ]
    ELSE IF Len(forward_fringe) <= Len(reverse_fringe)
    THEN LET r == ScanLevel(PairsFrom(edges, forward_fringe, TRUE),
                            pred, succ, <<>>)
         IN IF r.found
            THEN [found |-> TRUE, w |-> r.w, pred |-> r.map, succ |-> succ]
            ELSE BidirectionalPredSucc(edges, r.map, succ, r.fringe,
                                       reverse_fringe)
    ELSE LET r == ScanLevel(PairsFrom(edges, reverse_fringe, FALSE),
                            succ, pred, <<>>)
         IN IF r.found
            THEN [found |-> TRUE, w |-> r.w, pred |-> pred, succ |-> r.map]
            ELSE BidirectionalPredSucc(edges, pred, r.map, forward_fringe,
                                       r.fringe)

RECURSIVE Follow(_, _)
\* w, map[w], map[map[w]], ... up to the end of the chain
Follow(map, w) ==
    IF w = NoneRef THEN <<>> ELSE <<w>> \o Follow(map, map[w])

RECURSIVE Reverse(_)
Reverse(s) == IF s = <<>> THEN <<>> ELSE Reverse(Tail(s)) \o <<Head(s)>>

RECURSIVE SimplePathsFrom(_, _, _, _, _)
\* the search below `path`, over the edges `es` still to try at its end
SimplePathsFrom(edges, path, es, target, cutoff) ==
    IF es = <<>> THEN <<>>
    ELSE LET next_node == Head(es).v
             rest == SimplePathsFrom(edges, path, Tail(es), target, cutoff)
         IN IF next_node \in SeqToSet(path) THEN rest
            ELSE (IF next_node = target
                  THEN <<Append(path, next_node)>> ELSE <<>>)
                 \o (IF Len(path) < cutoff /\ next_node # target
                     THEN SimplePathsFrom(edges, Append(path, next_node),
                                          OutEdges(edges, next_node),
                                          target, cutoff)
                     ELSE <<>>)
                 \o rest

\* a search that keeps only the paths of exactly cutoff edges
AllSimplePaths_ExactLength(nodes, edges, source, target, cutoff) ==
    IF ~HasNode(nodes, source) \/ ~HasNode(nodes, target)
    THEN [status |-> "NodeNotFound", paths |-> <<>>]
    ELSE [status |-> "ok",
          paths |-> SelectSeq(SimplePathsFrom(edges, <<source>>,
                                              OutEdges(edges, source),
                                              target, cutoff),
                              LAMBDA q : Len(q) = cutoff + 1)]

\* a search that ignores the cutoff
AllSimplePaths_NoCutoff(nodes, edges, source, target, cutoff) ==
    IF ~HasNode(nodes, source) \/ ~HasNode(nodes, target)
    THEN [status |-> "NodeNotFound", paths |-> <<>>]
    ELSE IF source = target THEN [status |-> "ok", paths |-> <<<<source>>>>]
    ELSE [status |-> "ok",
          paths |-> SimplePathsFrom(edges, <<source>>,
                                    OutEdges(edges, source), target,
                                    Len(nodes))]

\* list(nx.all_simple_paths(G, source, target, cutoff))
AllSimplePaths(nodes, edges, source, target, cutoff) ==
    IF ~HasNode(nodes, source) \/ ~HasNode(nodes, target)
    THEN [status |-> "NodeNotFound", paths |-> <<>>]
    ELSE IF cutoff < 0 THEN [status |-> "ok", paths |-> <<>>]
    ELSE IF source = target THEN [status |-> "ok", paths |-> <<<<source>>>>]
    ELSE IF cutoff = 0 THEN [status |-> "ok", paths |-> <<>>]
    ELSE [status |-> "ok",
          paths |-> SimplePathsFrom(edges, <<source>>,
                                    OutEdges(edges, source), target, cutoff)]

\* a search that returns the first path a depth-first walk finds
ShortestPath_FirstFound(nodes, edges, source, target) ==
    IF ~HasNode(nodes, source) \/ ~HasNode(nodes, target)
    THEN [status |-> "NodeNotFound", path |-> <<>>]
    ELSE LET found == AllSimplePaths(nodes, edges, source, target,
                                     Len(nodes)).paths
         IN IF found = <<>>
            THEN [status |-> "NetworkXNoPath", path |-> <<>>]
            ELSE [status |-> "ok", path |-> found[1]]

\* nx.shortest_path(G, source, target), unweighted
ShortestPath(nodes, edges, source, target) ==
    IF ~HasNode(nodes, source) \/ ~HasNode(nodes, target)
    THEN [status |-> "NodeNotFound", path |-> <<>>]
    ELSE IF source = target
    THEN [status |-> "ok", path |-> <<source>>]
    ELSE LET r == BidirectionalPredSucc(edges, (source :> NoneRef),
                                        (target :> NoneRef),
                                        <<source>>, <<target>>)
         IN IF r.found
            THEN [status |-> "ok",
                  path |-> Reverse(Follow(r.pred, r.w))
                           \o Tail(Follow(r.succ, r.w))]
            ELSE [status |-> "NetworkXNoPath", path |-> <<>>]

(***************************************************************************)
(* HypergraphQuery: build_inference_chain, find_all_paths,                 *)
(* find_related_principles.  A query result is                             *)
(* [status, value]: "ok" with the returned list, "none" for a returned     *)
(* None, "raise" for an exception that leaves the method.                  *)
(***************************************************************************)
FullConfidence == 100    \* .get('confidence', 1.0), .get('confidence_impact', 1.0)
NoLevel == 0             \* node_data.get('level', 0)

NoEdgeToNext ==
    [type |-> Absent, inference_type |-> Absent, confidence_impact |-> NoNumber]

\* the data of the parallel edge with the highest key
FirstEdge_Last(edges, u, v) ==
    LET between == EdgesWhere(edges, u, v)
    IN CHOOSE e \in SeqToSet(between) :
          \A f \in SeqToSet(between) : f.key <= e.key

\* get_edge_data(u, v), then "if 0 in edge_data: edge_data = edge_data[0]"
FirstEdge(edges, u, v) ==
    LET between == EdgesWhere(edges, u, v)
    IN CHOOSE e \in SeqToSet(between) : e.key = 0

EdgeToNext(edges, u, v) ==
    LET e == FirstEdge(edges, u, v)
    IN [type |-> e.edge_type,
        inference_type |-> Get(e.inference_type, EmptyStr),
        confidence_impact |-> GetNum(e.confidence_impact, FullConfidence)]

\* a step numbered by enumerate without the + 1
ChainItem_FromZero(attr, edges, path, i) ==
    [step |-> i - 1,
     id |-> path[i],
     name |-> attr[path[i]].name,
     type |-> attr[path[i]].node_type,
     level |-> GetNum(attr[path[i]].level, NoLevel),
     confidence |-> GetNum(attr[path[i]].confidence, FullConfidence),
     has_edge_to_next |-> i < Len(path),
     edge_to_next |-> IF i < Len(path)
                      THEN EdgeToNext(edges, path[i], path[i + 1])
                      ELSE NoEdgeToNext]

ChainItem(attr, edges, path, i) ==
    [step |-> i,
     id |-> path[i],
     name |-> attr[path[i]].name,
     type |-> attr[path[i]].node_type,
     level |-> GetNum(attr[path[i]].level, NoLevel),
     confidence |-> GetNum(attr[path[i]].confidence, FullConfidence),
     has_edge_to_next |-> i < Len(path),
     edge_to_next |-> IF i < Len(path)
                      THEN EdgeToNext(edges, path[i], path[i + 1])
                      ELSE NoEdgeToNext]

\* a method without the except clause
ChainOutcome_NoExcept(attr, edges, sp) ==
    IF sp.status = "ok"
    THEN [status |-> "ok",
          value |-> [i \in 1..Len(sp.path) |->
                        ChainItem(attr, edges, sp.path, i)]]
    ELSE [status |-> "raise", value |-> <<>>]

\* how build_inference_chain ends when shortest_path has run
ChainOutcome(attr, edges, sp) ==
    CASE sp.status = "ok" ->
           [status |-> "ok",
            value |-> [i \in 1..Len(sp.path) |->
                          ChainItem(attr, edges, sp.path, i)]]
      [] sp.status = "NetworkXNoPath" -> [status |-> "none", value |-> <<>>]
      [] OTHER -> [status |-> "raise", value |-> <<>>]

build_inference_chain(index, nodes, attr, edges, start_principle, end_rule) ==
    IF start_principle \notin DOMAIN index \/ end_rule \notin DOMAIN index
    THEN [status |-> "none", value |-> <<>>]
    ELSE ChainOutcome(attr, edges,
                      ShortestPath(nodes, edges, index[start_principle],
                                   index[end_rule]))

PathItem(attr, path, i) ==
    [step |-> i,
     id |-> path[i],
     name |-> attr[path[i]].name,
     type |-> attr[path[i]].node_type,
     confidence |-> GetNum(attr[path[i]].confidence, FullConfidence)]

DetailedPath(attr, path) == [i \in 1..Len(path) |-> PathItem(attr, path, i)]

\* how find_all_paths ends when all_simple_paths has run
PathsOutcome(attr, asp) ==
    CASE asp.status = "ok" ->
           [status |-> "ok",
            value |-> [k \in 1..Len(asp.paths) |->
                          DetailedPath(attr, asp.paths[k])]]
      [] asp.status = "NetworkXNoPath" -> [status |-> "ok", value |-> <<>>]
      [] OTHER -> [status |-> "raise", value |-> <<>>]

\* a method that takes max_length for a number of nodes
find_all_paths_CountingNodes(index, nodes, attr, edges, start_principle, end_rule, max_length) ==
    IF start_principle \notin DOMAIN index \/ end_rule \notin DOMAIN index
    THEN [status |-> "ok", value |-> <<>>]
    ELSE PathsOutcome(attr,
                      AllSimplePaths(nodes, edges, index[start_principle],
                                     index[end_rule], max_length - 1))

find_all_paths(index, nodes, attr, edges, start_principle, end_rule, max_length) ==
    IF start_principle \notin DOMAIN index \/ end_rule \notin DOMAIN index
    THEN [status |-> "ok", value |-> <<>>]
    ELSE PathsOutcome(attr,
                      AllSimplePaths(nodes, edges, index[start_principle],
                                     index[end_rule], max_length))

\* the dictionary find_principles_by_domain appends for a node
DomainView(attr, node_id) ==
    [id |-> node_id,
     name |-> attr[node_id].name,
     description |-> Get(attr[node_id].description, EmptyStr),
     confidence |-> GetNum(attr[node_id].confidence, FullConfidence),
     domains |-> attr[node_id].domains]

\* the body of "for node_id, data in self.graph.nodes(data=True):"
ScanNode(attr, results, node_id, domain) ==
    IF /\ attr[node_id].node_type = "principle"
       /\ domain \in SeqToSet(attr[node_id].domains)
    THEN Append(results, DomainView(attr, node_id))
    ELSE results

RECURSIVE ScanNodes(_, _, _, _)
ScanNodes(attr, results, nodes, domain) ==
    IF nodes = <<>> THEN results
    ELSE ScanNodes(attr, ScanNode(attr, results, Head(nodes), domain),
                   Tail(nodes), domain)

find_principles_by_domain(nodes, attr, domain) ==
    [status |-> "ok", value |-> ScanNodes(attr, <<>>, nodes, domain)]

\* views of every relationship edge, whatever its target is
RECURSIVE RelatedViews_AnyTarget(_, _)
RelatedViews_AnyTarget(attr, es) ==
    IF es = <<>> THEN <<>>
    ELSE LET e == Head(es)
         IN (IF e.edge_type = "relationship"
             THEN <<[id |-> e.v, name |-> attr[e.v].name,
                     description |-> Get(attr[e.v].description, EmptyStr),
                     relationship |-> Get(e.relationship_name, "related-to"),
                     strength |-> GetNum(e.strength, Strength)]>>
             ELSE <<>>) \o RelatedViews_AnyTarget(attr, Tail(es))

RECURSIVE RelatedViews(_, _)
RelatedViews(attr, es) ==
    IF es = <<>> THEN <<>>
    ELSE LET e == Head(es)
         IN (IF e.edge_type = "relationship"
                /\ attr[e.v].node_type = "principle"
             THEN <<[id |-> e.v, name |-> attr[e.v].name,
                     description |-> Get(attr[e.v].description, EmptyStr),
                     relationship |-> Get(e.relationship_name, "related-to"),
                     strength |-> GetNum(e.strength, Strength)]>>
             ELSE <<>>) \o RelatedViews(attr, Tail(es))

find_related_principles(index, attr, edges, principle_name) ==
    IF principle_name \notin DOMAIN index
    THEN [status |-> "ok", value |-> <<>>]
    ELSE [status |-> "ok",
          value |-> RelatedViews(attr,
                                 OutEdges(edges, index[principle_name]))]

(***************************************************************************)
(* find_rules_derived_from_principle.  The jurisdiction and legal_domain   *)
(* of a view are attributes the model does not carry.                      *)
(***************************************************************************)
\* views of every outgoing edge, whatever its edge_type is
RECURSIVE DerivedViews_AnyEdge(_, _)
DerivedViews_AnyEdge(attr, es) ==
    IF es = <<>> THEN <<>>
    ELSE LET e == Head(es)
         IN <<[id |-> e.v, name |-> attr[e.v].name,
               description |-> Get(attr[e.v].description, EmptyStr),
               confidence |-> GetNum(attr[e.v].confidence, RuleConfidence),
               inference_type |-> Get(e.inference_type, "deductive")]>>
            \o DerivedViews_AnyEdge(attr, Tail(es))

RECURSIVE DerivedViews(_, _)
DerivedViews(attr, es) ==
    IF es = <<>> THEN <<>>
    ELSE LET e == Head(es)
         IN (IF e.edge_type = "derivation"
             THEN <<[id |-> e.v, name |-> attr[e.v].name,
                     description |-> Get(attr[e.v].description, EmptyStr),
                     confidence |->
                         GetNum(attr[e.v].confidence, RuleConfidence),
                     inference_type |-> Get(e.inference_type, "deductive")]>>
             ELSE <<>>) \o DerivedViews(attr, Tail(es))

\* node ids are uuid strings, so "not principle_id" is "not in the index"
find_rules_derived_from_principle(index, attr, edges, principle_name) ==
    IF principle_name \notin DOMAIN index
    THEN [status |-> "ok", value |-> <<>>]
    ELSE [status |-> "ok",
          value |-> DerivedViews(attr,
                                 OutEdges(edges, index[principle_name]))]

(***************************************************************************)
(* search_by_keyword.  A Python str is a sequence of characters; the       *)
(* texts of the model are the words of at most two letters over a, A, b,   *)
(* B, and Spelling gives each its characters.                              *)
(***************************************************************************)
Spelling ==
    ("" :> <<>>) @@ ("a" :> <<"a">>) @@ ("A" :> <<"A">>) @@
    ("b" :> <<"b">>) @@ ("B" :> <<"B">>) @@ ("aa" :> <<"a", "a">>) @@
    ("aA" :> <<"a", "A">>) @@ ("ab" :> <<"a", "b">>) @@
    ("aB" :> <<"a", "B">>) @@ ("Aa" :> <<"A", "a">>) @@
    ("AA" :> <<"A", "A">>) @@ ("Ab" :> <<"A", "b">>) @@
    ("AB" :> <<"A", "B">>) @@ ("ba" :> <<"b", "a">>) @@
    ("bA" :> <<"b", "A">>) @@ ("bb" :> <<"b", "b">>) @@
    ("bB" :> <<"b", "B">>) @@ ("Ba" :> <<"B", "a">>) @@
    ("BA" :> <<"B", "A">>) @@ ("Bb" :> <<"B", "b">>) @@ ("BB" :> <<"B", "B">>)

Chars(text) == Spelling[text]

UpperCase == <<"A", "B">>
LowerCase == <<"a", "b">>

\* a str.lower that leaves every character as it is
lower_AsIs(chars) == chars

\* str.lower(): every upper-case letter becomes its lower-case letter
lower(chars) ==
    [i \in 1..Len(chars) |->
        IF \E k \in 1..Len(UpperCase) : UpperCase[k] = chars[i]
        THEN LowerCase[CHOOSE k \in 1..Len(UpperCase) :
                          UpperCase[k] = chars[i]]
        ELSE chars[i]]

\* "needle in hay" for two str
Contains(needle, hay) ==
    \E k \in 0..(Len(hay) - Len(needle)) :
        SubSeq(hay, k + 1, k + Len(needle)) = needle

\* the loop over self.graph.nodes(data=True)
RECURSIVE Hits(_, _, _, _)
Hits(nodes, attr, keyword_lower, node_type) ==
    IF nodes = <<>> THEN <<>>
    ELSE LET node_id == Head(nodes)
             data == attr[node_id]
             name == lower(Chars(data.name))
             description == lower(Chars(Get(data.description, EmptyStr)))
         IN (IF node_type \notin {NoneRef, EmptyStr}
                /\ data.node_type # node_type
             THEN <<>>
             ELSE IF Contains(keyword_lower, name)
                     \/ Contains(keyword_lower, description)
             THEN <<[id |-> node_id, type |-> data.node_type,
                     name |-> data.name,
                     description |-> Get(data.description, EmptyStr),
                     relevance |-> IF Contains(keyword_lower, name)
                                   THEN "name" ELSE "description"]>>
             ELSE <<>>)
            \o Hits(Tail(nodes), attr, keyword_lower, node_type)

search_by_keyword(nodes, attr, keyword, node_type) ==
    [status |-> "ok",
     value |-> Hits(nodes, attr, lower(Chars(keyword)), node_type)]

(***************************************************************************)
(* export_pickle, export_json and HypergraphQuery.__init__.  A file is     *)
(* the document written to it.  pickle dumps the four objects as they      *)
(* are; json.dump writes nx.node_link_data of the graph with the           *)
(* hyperedges and the statistics, the keys of a dict as strings.           *)
(***************************************************************************)
RECURSIVE AllEdges(_, _)
\* G.edges(keys=True, data=True): by source in node order
AllEdges(nodes, edges) ==
    IF nodes = <<>> THEN <<>>
    ELSE OutEdges(edges, Head(nodes)) \o AllEdges(Tail(nodes), edges)

\* nx.node_link_data(G)
NodeLinkData(nodes, attr, edges) ==
    LET es == AllEdges(nodes, edges)
    IN [directed |-> TRUE, multigraph |-> TRUE,
        nodes |-> [i \in 1..Len(nodes) |->
                      [id |-> nodes[i], data |-> attr[nodes[i]]]],
        links |-> [i \in 1..Len(es) |->
                      [source |-> es[i].u, target |-> es[i].v,
                       key |-> es[i].key, edge_type |-> es[i].edge_type,
                       hyperedge_id |-> es[i].hyperedge_id,
                       inference_type |-> es[i].inference_type,
                       confidence_impact |-> es[i].confidence_impact,
                       relationship_name |-> es[i].relationship_name,
                       strength |-> es[i].strength]]]

\* json.dump of a dict with int keys: the keys become their decimal text
JsonObject(counts) ==
    [k \in {ToString(x) : x \in DOMAIN counts} |->
        counts[CHOOSE x \in DOMAIN counts : ToString(x) = k]]

export_json(g, statistics) ==
    LET data == NodeLinkData(g.nodes, g.attr, g.edges)
    IN [directed |-> data.directed, multigraph |-> data.multigraph,
        nodes |-> data.nodes, links |-> data.links,
        hyperedges |-> g.hyperedges,
        statistics |-> [statistics EXCEPT !.levels = JsonObject(@)]]

export_pickle(g, statistics) ==
    [graph |-> [nodes |-> g.nodes, attr |-> g.attr, edges |-> g.edges],
     hyperedges |-> g.hyperedges, node_index |-> g.index,
     stats |-> statistics]

\* HypergraphQuery.__init__: pickle.load reads a pickle, and raises
\* UnpicklingError on any other file
LoadHypergraph(data) ==
    IF "graph" \in DOMAIN data
    THEN [status |-> "ok",
          value |-> <<[nodes |-> data.graph.nodes, attr |-> data.graph.attr,
                       edges |-> data.graph.edges,
                       hyperedges |-> data.hyperedges,
                       index |-> data.node_index, stats |-> data.stats]>>]
    ELSE [status |-> "raise", value |-> <<>>]

(***************************************************************************)
(* compute_path_confidence.  A number is an exact fraction [num, den] in   *)
(* lowest terms; the factors of a chain are given in hundredths.  The      *)
(* float product is taken as the exact product; round(x, 4) gives the      *)
(* nearest multiple of 0.0001, and where the exact product lies half way   *)
(* between two of them the float's error decides, so both are possible.    *)
(* The result is counted in units of 0.0001.                               *)
(***************************************************************************)
RoundDigits == 4         \* round(confidence, 4)

Abs(x) == IF x < 0 THEN 0 - x ELSE x

RECURSIVE GCD(_, _)
GCD(a, b) == IF b = 0 THEN a ELSE GCD(b, a % b)

One == [num |-> 1, den |-> 1]

\* a factor given in hundredths
Factor(h) ==
    LET g == GCD(100, Abs(h))
    IN [num |-> (IF h < 0 THEN 0 - 1 ELSE 1) * (Abs(h) \div g),
        den |-> 100 \div g]

\* confidence *= h
Times(x, h) ==
    LET f == Factor(h)
        g1 == GCD(Abs(x.num), f.den)
        g2 == GCD(Abs(f.num), x.den)
    IN [num |-> (x.num \div g1) * (f.num \div g2),
        den |-> (x.den \div g2) * (f.den \div g1)]

\* 'edge_to_next' in item
HasEdgeToNext(item) ==
    "has_edge_to_next" \in DOMAIN item /\ item.has_edge_to_next

\* the loop of compute_path_confidence without the edge factor
RECURSIVE PathProduct_NodesOnly(_, _)
PathProduct_NodesOnly(path, confidence) ==
    IF path = <<>> THEN confidence
    ELSE PathProduct_NodesOnly(
             Tail(path),
             Times(confidence, GetNum(Head(path).confidence,
                                      FullConfidence)))

\* a loop that assigns each step's confidence instead of multiplying by it
PathProduct_LastStep(path, confidence) ==
    IF path = <<>> THEN confidence
    ELSE Times(One, GetNum(path[Len(path)].confidence, FullConfidence))

\* for item in path: confidence *= ...
RECURSIVE PathProduct(_, _)
PathProduct(path, confidence) ==
    IF path = <<>> THEN confidence
    ELSE LET item == Head(path)
             c1 == Times(confidence,
                         GetNum(item.confidence, FullConfidence))
             c2 == IF HasEdgeToNext(item)
                   THEN Times(c1, GetNum(item.edge_to_next.confidence_impact,
                                         FullConfidence))
                   ELSE c1
         IN PathProduct(Tail(path), c2)

\* long division: <<whole part, remainder>> of num * 10^digits / den
RECURSIVE Shifted(_, _, _)
Shifted(num, den, digits) ==
    IF digits = 0 THEN <<num \div den, num % den>>
    ELSE LET d == Shifted(num, den, digits - 1)
         IN <<d[1] * 10 + (d[2] * 10) \div den, (d[2] * 10) % den>>

\* the values round(x, RoundDigits) can give
Rounded(x) ==
    LET sign == IF x.num < 0 THEN 0 - 1 ELSE 1
        d == Shifted(Abs(x.num), x.den, RoundDigits)
    IN {sign * q : q \in (IF 2 * d[2] <= x.den THEN {d[1]} ELSE {})
                         \cup (IF 2 * d[2] >= x.den THEN {d[1] + 1} ELSE {})}

\* the values compute_path_confidence(path) can return
compute_path_confidence(path) == Rounded(PathProduct(path, One))

(***************************************************************************)
(* The payloads explored.  A payload is the parsed tuples file: the set    *)
(* of groups it has, the node definitions of each node group and the       *)
(* hyperedge records.  Four families are explored: one varies the node     *)
(* definitions (names shared, missing, equal to another node's id; ids     *)
(* declared twice), one the endpoint references and the shape of the       *)
(* target field, one the graph, and one the groups the file lacks.         *)
(***************************************************************************)
Def(id, name) ==
    [node_id |-> id, name |-> name, description |-> Absent,
     domains |-> <<>>, level |-> NoNumber, confidence |-> NoNumber]

Rel(hid, source, form, targets) ==
    [hyperedge_id |-> hid, hyperedge_type |-> "relationship",
     source_node |-> source, form |-> form, targets |-> targets,
     relationship_name |-> Absent, strength |-> NoNumber]

Deriv(hid, sources, target) ==
    [hyperedge_id |-> hid, hyperedge_type |-> "derivation",
     source_nodes |-> sources, target_node |-> target,
     inference_type |-> Absent, confidence_impact |-> NoNumber]

Payload(present, ps, rs, cs, ds, rels, derivs) ==
    [present |-> present, principles |-> ps, rules |-> rs, concepts |-> cs,
     domains |-> ds, relationships |-> rels, derivations |-> derivs]

NameOpts == {Absent, "a", "b", "n1"}
FlatDefs == (1..4) \X Ids \X NameOpts

\* groups in file order, and node ids numbered in order of first use
Canonical(flat) ==
    /\ \A i \in 1..(Len(flat) - 1) : flat[i][1] <= flat[i + 1][1]
    /\ \A i \in 1..Len(flat) :
          \/ flat[i][2] = "n1"
          \/ flat[i][2] = "n2" /\ \E j \in 1..(i - 1) : flat[j][2] = "n1"
          \/ flat[i][2] = "n3" /\ \E j \in 1..(i - 1) : flat[j][2] = "n2"

RECURSIVE GroupDefs(_, _)
GroupDefs(flat, g) ==
    IF flat = <<>> THEN <<>>
    ELSE (IF Head(flat)[1] = g
          THEN <<Def(Head(flat)[2], Head(flat)[3])>> ELSE <<>>)
         \o GroupDefs(Tail(flat), g)

StdPrinciples == <<Def("n1", "a"), Def("n2", "b")>>
StdRules == <<Def("n3", "c")>>

NamingPayloads ==
    {Payload(Groups, GroupDefs(f, 1), GroupDefs(f, 2), GroupDefs(f, 3),
             GroupDefs(f, 4),
             <<Rel("r1", "n1", "target_nodes", <<"n2", "a">>)>>,
             <<Deriv("d1", <<"a", "n1">>, "n2")>>) :
        f \in {x \in SeqsUpTo(FlatDefs, MaxDefs) : Canonical(x)}}

SourceRefs == {"n1", "a", Unknown}
TargetRefs == {"n2", "b", "c", Unknown}

RelShapes(sources, targets) ==
    {Rel("r1", s, "target_nodes", ts) :
        s \in sources, ts \in SeqsUpTo(targets, MaxFan)}
    \cup {Rel("r1", s, form, <<t>>) :
        s \in sources, t \in targets,
        form \in {"target_nodes_scalar", "target_node"}}
    \cup {Rel("r1", s, "neither", <<>>) : s \in sources}

DerivShapes(sources, targets) ==
    {Deriv("d1", ss, t) : ss \in SeqsUpTo(sources, MaxFan), t \in targets}

ReferencePayloads ==
    {Payload(Groups, StdPrinciples, StdRules, <<>>, <<>>, <<r>>, <<>>) :
        r \in RelShapes(SourceRefs, TargetRefs)}
    \cup {Payload(Groups, StdPrinciples, StdRules, <<>>, <<>>, <<>>, <<d>>) :
        d \in DerivShapes(SourceRefs, {"n3", "c", Unknown, Absent})}

\* several records of each kind, to see the order of the retained list
OrderRels ==
    {Rel("r1", "a", "target_nodes", <<"b", "c">>),
     Rel("r2", "b", "target_nodes", <<Unknown, "a">>),
     Rel("r3", "a", "target_node", <<"b">>),
     Rel("r4", Unknown, "target_nodes", <<"a", "b">>)}
OrderDerivs ==
    {Deriv("d1", <<"a", "b">>, "n3"), Deriv("d2", <<>>, Unknown)}

OrderPayloads ==
    {Payload(Groups, StdPrinciples, StdRules, <<>>, <<>>, rels, derivs) :
        rels \in {x \in [1..2 -> OrderRels] : x[1] # x[2]},
        derivs \in {x \in [1..2 -> OrderDerivs] : x[1] # x[2]}}

GraphPayloads ==
    {Payload(Groups, StdPrinciples, StdRules, <<>>, <<>>, rels, derivs) :
        rels \in {<<>>} \cup
            {<<Rel("r1", s, "target_nodes", ts)>> :
                s \in Ids, ts \in SeqsUpTo(Ids, MaxFan)},
        derivs \in {<<>>} \cup
            {<<d>> : d \in DerivShapes(Ids, Ids)}}

\* four nodes joined by single-target relationships, for longer paths
LinkEnds ==
    {<<"n1", "n2">>, <<"n1", "n4">>, <<"n2", "n4">>, <<"n4", "n2">>,
     <<"n2", "n3">>, <<"n4", "n3">>, <<"n3", "n1">>, <<"n1", "n3">>}
LinkIds == <<"r1", "r2", "r3", "r4", "r5", "r6">>

PathPayloads ==
    {Payload(Groups, StdPrinciples, StdRules, <<Def("n4", "k")>>, <<>>,
             [i \in 1..Len(links) |->
                 Rel(LinkIds[i], links[i][1], "target_node",
                     <<links[i][2]>>)],
             <<>>) :
        links \in SeqsUpTo(LinkEnds, MaxLinks)}

MissingPayloads ==
    {Payload(present, StdPrinciples, StdRules, <<Def("n4", "k")>>, <<>>,
             <<Rel("r1", "a", "target_nodes", <<"b", "c">>)>>,
             <<Deriv("d1", <<"a">>, "n3")>>) :
        present \in (SUBSET Groups) \ {Groups}}

\* principles P1 'pacta-sunt-servanda' (n1, "a") of confidence 1.0 and P2
\* 'good-faith' (n2, "b"), rule R1 'enforce-contract' (n3, "c") of confidence
\* 0.95, a relationship from P1 to P2 and a derivation from P1 to R1
ScenarioPayload ==
    Payload(Groups,
            <<[Def("n1", "a") EXCEPT !.confidence = 100], Def("n2", "b")>>,
            <<[Def("n3", "c") EXCEPT !.confidence = 95]>>, <<>>, <<>>,
            <<[Rel("r1", "a", "target_nodes", <<"b">>)
                  EXCEPT !.strength = 90]>>,
            <<[Deriv("d1", <<"a">>, "n3")
                  EXCEPT !.inference_type = "deductive",
                         !.confidence_impact = 95]>>)

\* the families of documents, one after the other
Payloads ==
    <<NamingPayloads, ReferencePayloads, OrderPayloads, GraphPayloads,
      PathPayloads, MissingPayloads, {ScenarioPayload}>>

QueryPairs ==
    {<<"a", "c">>, <<"c", "a">>, <<"a", "b">>, <<"a", "a">>,
     <<"a", Unknown>>, <<Unknown, "c">>}
QueryNames == {"a", "b", "c", Unknown}

(***************************************************************************)
(* The state machine.                                                      *)
(***************************************************************************)
NoResult == [op |-> "none", args |-> <<>>, status |-> "none", value |-> <<>>]
NoStats == [total_nodes |-> NoNumber]

\* SCMLexHypergraph.__init__, and the document json.load returns
Init ==
    /\ \E family \in DOMAIN Payloads : payload \in Payloads[family]
    /\ pc = "principles"
    /\ graph_nodes = <<>>
    /\ node_attr = EmptyMap
    /\ graph_edges = <<>>
    /\ hyperedges = <<>>
    /\ node_index = EmptyMap
    /\ stats = NoStats
    /\ result = NoResult

Graph ==
    [nodes |-> graph_nodes, attr |-> node_attr, index |-> node_index,
     edges |-> graph_edges, hyperedges |-> hyperedges]

NextStep(step) ==
    CASE step = "principles" -> "rules"
      [] step = "rules" -> "concepts"
      [] step = "concepts" -> "domains"
      [] step = "domains" -> "relationships"
      [] step = "relationships" -> "derivations"
      [] step = "derivations" -> "statistics"
      [] step = "statistics" -> "done"

\* data['nodes'][group] / data['hyperedges'][group] finds the key
HasGroup(doc, group) == group \in doc.present

\* _add_principles, _add_rules, _add_concepts, _add_domains
AddNodes(group) ==
    /\ pc = group
    /\ HasGroup(payload, group)
    /\ LET g == AddNodeDefs(Graph, group, payload[group])
       IN /\ graph_nodes' = g.nodes
          /\ node_attr' = g.attr
          /\ node_index' = g.index
    /\ pc' = NextStep(pc)
    /\ UNCHANGED <<payload, graph_edges, hyperedges, stats, result>>

AddPrinciples == AddNodes("principles")
AddRules == AddNodes("rules")
AddConcepts == AddNodes("concepts")
AddDomains == AddNodes("domains")

AddRelationships ==
    /\ pc = "relationships"
    /\ HasGroup(payload, "relationships")
    /\ LET g == AddRelationshipRecs(Graph, payload.relationships)
       IN /\ graph_edges' = g.edges
          /\ hyperedges' = g.hyperedges
    /\ pc' = NextStep(pc)
    /\ UNCHANGED <<payload, graph_nodes, node_attr, node_index, stats, result>>

AddDerivations ==
    /\ pc = "derivations"
    /\ HasGroup(payload, "derivations")
    /\ LET g == AddDerivationRecs(Graph, payload.derivations)
       IN /\ graph_edges' = g.edges
          /\ hyperedges' = g.hyperedges
    /\ pc' = NextStep(pc)
    /\ UNCHANGED <<payload, graph_nodes, node_attr, node_index, stats, result>>

\* the subscript of a missing group raises KeyError out of load_from_tuples
RaiseKeyError ==
    /\ pc \in Groups
    /\ ~HasGroup(payload, pc)
    /\ pc' = "error"
    /\ UNCHANGED <<payload, graph_nodes, node_attr, graph_edges, hyperedges,
                   node_index, stats, result>>

Statistics ==
    /\ pc = "statistics"
    /\ stats' = ComputeStatistics(graph_nodes, node_attr, graph_edges,
                                  hyperedges)
    /\ pc' = NextStep(pc)
    /\ UNCHANGED <<payload, graph_nodes, node_attr, graph_edges, hyperedges,
                   node_index, result>>

\* a query runs when the caller holds no unread answer
Answer(op, args, r) ==
    /\ result = NoResult
    /\ result' = [op |-> op, args |-> args, status |-> r.status,
                  value |-> r.value]
    /\ UNCHANGED <<payload, pc, graph_nodes, node_attr, graph_edges,
                   hyperedges, node_index, stats>>

BuildInferenceChain ==
    /\ pc = "done"
    /\ \E q \in QueryPairs :
          Answer("build_inference_chain", q,
                 build_inference_chain(node_index, graph_nodes, node_attr,
                                       graph_edges, q[1], q[2]))

FindAllPaths ==
    /\ pc = "done"
    /\ \E q \in QueryPairs, max_length \in 0..MaxLength :
          Answer("find_all_paths", <<q[1], q[2], max_length>>,
                 find_all_paths(node_index, graph_nodes, node_attr,
                                graph_edges, q[1], q[2], max_length))

FindRelatedPrinciples ==
    /\ pc = "done"
    /\ \E name \in QueryNames :
          Answer("find_related_principles", <<name>>,
                 find_related_principles(node_index, node_attr, graph_edges,
                                         name))

\* the caller takes the answer; the snapshot is as before
Return ==
    /\ result # NoResult
    /\ result' = NoResult
    /\ UNCHANGED <<payload, pc, graph_nodes, node_attr, graph_edges,
                   hyperedges, node_index, stats>>

\* compute_path_confidence(chain), on a chain the caller holds
ComputePathConfidence ==
    /\ result.status = "ok"
    /\ result.op \in {"build_inference_chain", "chain"}
    /\ \E r \in compute_path_confidence(result.value) :
          result' = [op |-> "compute_path_confidence",
                     args |-> <<result.value>>, status |-> "ok",
                     value |-> <<r>>]
    /\ UNCHANGED <<payload, pc, graph_nodes, node_attr, graph_edges,
                   hyperedges, node_index, stats>>

Next ==
    \/ AddPrinciples
    \/ AddRules
    \/ AddConcepts
    \/ AddDomains
    \/ AddRelationships
    \/ AddDerivations
    \/ RaiseKeyError
    \/ Statistics
    \/ BuildInferenceChain
    \/ FindAllPaths
    \/ FindRelatedPrinciples
    \/ ComputePathConfidence
    \/ Return

Spec == Init /\ [][Next]_vars

(***************************************************************************)
(* compute_path_confidence on its own: the chain is any list of steps of   *)
(* the form build_inference_chain gives, with any factors; a second call   *)
(* takes the chain with one more step.                                     *)
(***************************************************************************)
\* factors in hundredths; NoNumber is a key the step lacks
ConfidenceOpts == {NoNumber, 100, 95, 50, 0, 0 - 50, 120}

Step(i, confidence, more, confidence_impact) ==
    [step |-> i, confidence |-> confidence, has_edge_to_next |-> more,
     edge_to_next |-> [confidence_impact |-> confidence_impact]]

ChainsOf(n) ==
    {[i \in 1..n |-> Step(i, cs[i], i < n,
                          IF i < n THEN is[i] ELSE NoNumber)] :
        cs \in [1..n -> ConfidenceOpts],
        is \in [1..(n - 1) -> ConfidenceOpts]}

Chains == UNION {ChainsOf(n) : n \in 0..MaxSteps}

\* the chain with one more step at its end
Extended(chain, confidence, confidence_impact) ==
    LET n == Len(chain)
    IN [i \in 1..(n + 1) |->
          IF i <= n - 1 THEN chain[i]
          ELSE IF i = n
          THEN Step(n, chain[n].confidence, TRUE, confidence_impact)
          ELSE Step(n + 1, confidence, FALSE, NoNumber)]

ConfidenceInit ==
    /\ payload = Payload({}, <<>>, <<>>, <<>>, <<>>, <<>>, <<>>)
    /\ pc = "chains"
    /\ graph_nodes = <<>>
    /\ node_attr = EmptyMap
    /\ graph_edges = <<>>
    /\ hyperedges = <<>>
    /\ node_index = EmptyMap
    /\ stats = NoStats
    /\ \E chain \in Chains :
          result = [op |-> "chain", args |-> <<>>, status |-> "ok",
                    value |-> chain]

\* compute_path_confidence(longer chain) after compute_path_confidence(chain).
\* The loop multiplies in chain order, so the longer product is the earlier
\* one times the two new factors; where these leave it unchanged (both 1.0,
\* or the product already 0) the float is the same and so is the result.
ComputeExtended ==
    /\ result.op = "compute_path_confidence"
    /\ Len(result.args) = 1
    /\ Len(result.args[1]) \in 1..(MaxSteps - 1)
    /\ \E c \in ConfidenceOpts, i \in ConfidenceOpts :
          LET chain == result.args[1]
              longer == Extended(chain, c, i)
              same == PathProduct(longer, One) = PathProduct(chain, One)
          IN \E r \in (IF same THEN {result.value[1]}
                        ELSE compute_path_confidence(longer)) :
                result' = [op |-> "compute_path_confidence",
                           args |-> <<longer, chain, result.value[1]>>,
                           status |-> "ok", value |-> <<r>>]
    /\ UNCHANGED <<payload, pc, graph_nodes, node_attr, graph_edges,
                   hyperedges, node_index, stats>>

ConfidenceNext ==
    \/ ComputePathConfidence
    \/ ComputeExtended

ConfidenceSpec == ConfidenceInit /\ [][ConfidenceNext]_vars

(***************************************************************************)
(* The two searches step by step, on a built snapshot: one action per      *)
(* turn of the loop of networkx's _all_simple_edge_paths (one edge taken   *)
(* from the iterator on top of the stack) and per node expanded by         *)
(* _bidirectional_pred_succ.  The search in progress is held in result,    *)
(* with status "running" until the loop ends.                              *)
(***************************************************************************)
\* an iterator that does not look at current_path
DropVisited_Nothing(it, current_path) == it

\* next(e for e in stack[-1] if e[1] not in current_path): the iterator
\* from its first edge to an unvisited node on
RECURSIVE DropVisited(_, _)
DropVisited(it, current_path) ==
    IF it = <<>> THEN <<>>
    ELSE IF Head(it) \in SeqToSet(current_path)
    THEN DropVisited(Tail(it), current_path)
    ELSE it

\* stack = [iter([(None, source)])], current_path = {None: None}
SimplePathsStart(source) ==
    [stack |-> <<<<source>>>>, current_path |-> <<>>, found |-> <<>>]

\* one turn of "while stack:"; an edge is held as the node it leads to
SimplePathsStep(edges, st, target, cutoff) ==
    LET n == Len(st.stack)
        rest == DropVisited(st.stack[n], st.current_path)
    IN IF rest = <<>>
       THEN [st EXCEPT !.stack = SubSeq(@, 1, n - 1),
                       !.current_path =
                           IF @ = <<>> THEN @ ELSE SubSeq(@, 1, Len(@) - 1)]
       ELSE LET next_node == Head(rest)
                taken == [st EXCEPT !.stack[n] = Tail(rest)]
                yielded ==
                    IF next_node = target
                    THEN [taken EXCEPT !.found =
                             Append(@, Append(st.current_path, next_node))]
                    ELSE taken
            IN IF Len(st.current_path) < cutoff /\ next_node # target
               THEN [yielded EXCEPT
                        !.current_path = Append(@, next_node),
                        !.stack = Append(@, MapV(OutEdges(edges,
                                                          next_node)))]
               ELSE yielded

\* pred = {source: None}, succ = {target: None}, the two fringes
PredSuccStart(source, target) ==
    [pred |-> (source :> NoneRef), succ |-> (target :> NoneRef),
     forward_fringe |-> <<source>>, reverse_fringe |-> <<target>>,
     this_level |-> <<>>, forward |-> TRUE, expanded |-> <<>>,
     found |-> FALSE, w |-> NoneRef]

\* "while forward_fringe and reverse_fringe:" picks the shorter fringe
PredSuccLevel(st) ==
    IF st.this_level # <<>> THEN st
    ELSE IF Len(st.forward_fringe) <= Len(st.reverse_fringe)
    THEN [st EXCEPT !.this_level = st.forward_fringe,
                    !.forward_fringe = <<>>, !.forward = TRUE]
    ELSE [st EXCEPT !.this_level = st.reverse_fringe,
                    !.reverse_fringe = <<>>, !.forward = FALSE]

\* "for v in this_level:" for one v
PredSuccStep(edges, st0) ==
    LET st == PredSuccLevel(st0)
        v == Head(st.this_level)
        r == IF st.forward
             THEN ScanLevel(PairsFrom(edges, <<v>>, TRUE), st.pred, st.succ,
                            st.forward_fringe)
             ELSE ScanLevel(PairsFrom(edges, <<v>>, FALSE), st.succ, st.pred,
                            st.reverse_fringe)
        grown == IF st.forward
                 THEN [st EXCEPT !.pred = r.map, !.forward_fringe = r.fringe]
                 ELSE [st EXCEPT !.succ = r.map, !.reverse_fringe = r.fringe]
    IN [grown EXCEPT !.this_level = Tail(@),
                     !.expanded = Append(@, v),
                     !.found = r.found, !.w = r.w]

\* the loop has ended: a meeting node, or a fringe ran empty between levels
PredSuccEnded(st) ==
    \/ st.found
    \/ st.this_level = <<>>
       /\ (st.forward_fringe = <<>> \/ st.reverse_fringe = <<>>)

\* arcs among three nodes: a self-loop, a cycle, a parallel arc, and the
\* ways between the first principle and the rule
SearchEnds ==
    <<(<<"n1", "n1">>), (<<"n1", "n2">>), (<<"n2", "n1">>),
      (<<"n1", "n2">>), (<<"n2", "n3">>), (<<"n3", "n2">>)>>

\* the arcs of ends at the positions in keep, from position i on
RECURSIVE Picked(_, _, _)
Picked(ends, keep, i) ==
    IF i > Len(ends) THEN <<>>
    ELSE (IF i \in keep THEN <<ends[i]>> ELSE <<>>)
         \o Picked(ends, keep, i + 1)

SearchPayloads ==
    {LET links == Picked(SearchEnds, keep, 1)
     IN Payload(Groups, StdPrinciples, StdRules, <<>>, <<>>,
                [i \in 1..Len(links) |->
                    Rel(LinkIds[i], links[i][1], "target_node",
                        <<links[i][2]>>)],
                <<>>) :
        keep \in {S \in SUBSET (1..Len(SearchEnds)) :
                     Cardinality(S) <= MaxLinks}}

SearchPairs == {<<"n1", "n3">>, <<"n3", "n1">>}

\* the snapshot load_from_tuples leaves for a payload with all its groups
Built(doc) ==
    AddDerivationRecs(
        AddRelationshipRecs(
            AddNodeDefs(
                AddNodeDefs(
                    AddNodeDefs(
                        AddNodeDefs(
                            [nodes |-> <<>>, attr |-> EmptyMap,
                             index |-> EmptyMap, edges |-> <<>>,
                             hyperedges |-> <<>>],
                            "principles", doc.principles),
                        "rules", doc.rules),
                    "concepts", doc.concepts),
                "domains", doc.domains),
            doc.relationships),
        doc.derivations)

\* the variables hold the snapshot of the payload, with its statistics
Loaded ==
    \E g \in {Built(payload)} :
        /\ graph_nodes = g.nodes
        /\ node_attr = g.attr
        /\ graph_edges = g.edges
        /\ hyperedges = g.hyperedges
        /\ node_index = g.index
        /\ stats = ComputeStatistics(g.nodes, g.attr, g.edges, g.hyperedges)

SearchInit ==
    /\ payload \in SearchPayloads
    /\ pc = "done"
    /\ Loaded
    /\ result = NoResult

Searching(op) == result.op = op /\ result.status = "running"

\* nx.all_simple_paths(graph, start_id, end_id, cutoff=max_length) begins
StartAllSimplePaths ==
    /\ result = NoResult
    /\ \E q \in SearchPairs, cutoff \in 0..MaxLength :
          result' = [op |-> "all_simple_paths",
                     args |-> <<q[1], q[2], cutoff>>, status |-> "running",
                     value |-> <<SimplePathsStart(q[1])>>]
    /\ UNCHANGED <<payload, pc, graph_nodes, node_attr, graph_edges,
                   hyperedges, node_index, stats>>

StepAllSimplePaths ==
    /\ Searching("all_simple_paths")
    /\ \E st \in {SimplePathsStep(graph_edges, result.value[1],
                                   result.args[2], result.args[3])} :
          result' = [result EXCEPT
                        !.value = <<st>>,
                        !.status = IF st.stack = <<>> THEN "ok"
                                   ELSE "running"]
    /\ UNCHANGED <<payload, pc, graph_nodes, node_attr, graph_edges,
                   hyperedges, node_index, stats>>

\* nx.shortest_path(graph, start_id, end_id) begins
StartShortestPath ==
    /\ result = NoResult
    /\ \E q \in SearchPairs :
          result' = [op |-> "shortest_path", args |-> q,
                     status |-> "running",
                     value |-> <<PredSuccStart(q[1], q[2])>>]
    /\ UNCHANGED <<payload, pc, graph_nodes, node_attr, graph_edges,
                   hyperedges, node_index, stats>>

StepShortestPath ==
    /\ Searching("shortest_path")
    /\ \E st \in {PredSuccStep(graph_edges, result.value[1])} :
          result' = [result EXCEPT
                        !.value = <<st>>,
                        !.status = IF st.found THEN "ok"
                                   ELSE IF PredSuccEnded(st)
                                   THEN "NetworkXNoPath"
                                   ELSE "running"]
    /\ UNCHANGED <<payload, pc, graph_nodes, node_attr, graph_edges,
                   hyperedges, node_index, stats>>

SearchNext ==
    \/ StartAllSimplePaths
    \/ StepAllSimplePaths
    \/ StartShortestPath
    \/ StepShortestPath

\* a loop that has begun runs on: nothing else holds the thread
SearchSpec ==
    /\ SearchInit
    /\ [][SearchNext]_vars
    /\ WF_vars(StepAllSimplePaths)
    /\ WF_vars(StepShortestPath)

(***************************************************************************)
(* search_by_keyword on built snapshots whose nodes carry names and        *)
(* descriptions in both cases; a domain definition gives no description    *)
(* and may name a node that a principle already defined.                   *)
(***************************************************************************)
TextNames == {Absent, "Ab", "b"}
TextDescriptions == {Absent, "aB", "Bb"}

TextDefs ==
    {[Def(id, name) EXCEPT !.description = description] :
        id \in {"n1", "n2"}, name \in TextNames,
        description \in TextDescriptions}

TextPayloads ==
    {Payload(Groups, ps, <<>>, <<>>, ds, <<>>, <<>>) :
        ps \in SeqsUpTo(TextDefs, MaxDefs),
        ds \in {<<>>, <<Def("n1", "B")>>}}

Keywords == {"", "a", "A", "b", "ab", "AB", "Ba", "bb"}
TypeFilters == {NoneRef, EmptyStr, "principle"}

TextInit ==
    /\ payload \in TextPayloads
    /\ pc = "done"
    /\ Loaded
    /\ result = NoResult

SearchByKeyword ==
    /\ pc = "done"
    /\ \E keyword \in Keywords, node_type \in TypeFilters :
          Answer("search_by_keyword", <<keyword, node_type>>,
                 search_by_keyword(graph_nodes, node_attr, keyword,
                                   node_type))

TextNext ==
    \/ SearchByKeyword
    \/ Return

TextSpec == TextInit /\ [][TextNext]_vars

(***************************************************************************)
(* The two neighbour lookups on built snapshots: relationship records      *)
(* with and without a relationship_name and a strength, to a principle,    *)
(* to the rule, back to the first principle and from a node to itself;     *)
(* derivation records with and without an inference_type, to the rule and  *)
(* to a principle.                                                         *)
(***************************************************************************)
Named(rel, relationship_name, strength) ==
    [rel EXCEPT !.relationship_name = relationship_name,
                !.strength = strength]

Inferred(deriv, inference_type) ==
    [deriv EXCEPT !.inference_type = inference_type]

LookupRels ==
    {Rel("r1", "n1", "target_node", <<"n2">>),
     Named(Rel("r2", "a", "target_node", <<"b">>), "supports", 50),
     Rel("r3", "n1", "target_node", <<"n3">>),
     Named(Rel("r4", "n1", "target_node", <<"c">>), "supports", 50),
     Rel("r5", "n2", "target_node", <<"n1">>),
     Named(Rel("r6", "n1", "target_node", <<"n1">>), "limits", 100)}

LookupDerivs ==
    {Deriv("d1", <<"n1">>, "n3"),
     Inferred(Deriv("d2", <<"a">>, "n3"), "inductive"),
     Deriv("d3", <<"n2">>, "n3"),
     Inferred(Deriv("d4", <<"n2">>, "n1"), "abductive")}

LookupPayloads ==
    {Payload(Groups, StdPrinciples, StdRules, <<>>, <<>>, rels, derivs) :
        rels \in SeqsUpTo(LookupRels, MaxFan),
        derivs \in SeqsUpTo(LookupDerivs, MaxFan)}

LookupInit ==
    /\ payload \in LookupPayloads
    /\ pc = "done"
    /\ Loaded
    /\ result = NoResult

FindRulesDerivedFromPrinciple ==
    /\ pc = "done"
    /\ \E name \in QueryNames :
          Answer("find_rules_derived_from_principle", <<name>>,
                 find_rules_derived_from_principle(node_index, node_attr,
                                                   graph_edges, name))

LookupNext ==
    \/ FindRulesDerivedFromPrinciple
    \/ FindRelatedPrinciples
    \/ Return

LookupSpec == LookupInit /\ [][LookupNext]_vars

(***************************************************************************)
(* The built snapshot is exported in the two forms and the query engine    *)
(* is started on the exported file.                                        *)
(***************************************************************************)
InterchangeInit ==
    /\ payload \in LookupPayloads
    /\ pc = "done"
    /\ Loaded
    /\ result = NoResult

ExportPickle ==
    /\ pc = "done"
    /\ Answer("export_pickle", <<>>,
              [status |-> "ok", value |-> <<export_pickle(Graph, stats)>>])

ExportJson ==
    /\ pc = "done"
    /\ Answer("export_json", <<>>,
              [status |-> "ok", value |-> <<export_json(Graph, stats)>>])

\* HypergraphQuery(hypergraph_file) on the file just written
NewHypergraphQuery ==
    /\ result.op \in {"export_pickle", "export_json"}
    /\ \E r \in {LoadHypergraph(result.value[1])} :
          result' = [op |-> "HypergraphQuery", args |-> <<result.op>>,
                     status |-> r.status, value |-> r.value]
    /\ UNCHANGED <<payload, pc, graph_nodes, node_attr, graph_edges,
                   hyperedges, node_index, stats>>

InterchangeNext ==
    \/ ExportPickle
    \/ ExportJson
    \/ NewHypergraphQuery
    \/ Return

InterchangeSpec == InterchangeInit /\ [][InterchangeNext]_vars

(***************************************************************************)
(* Queries that run at the same time on one HypergraphQuery.  Each call    *)
(* holds its loop state in its own frame and reads the snapshot one loop   *)
(* turn at a time; turns of different calls interleave in any order.       *)
(* result holds one answer record per thread; while a call runs its        *)
(* record holds the frame.                                                 *)
(***************************************************************************)
Threads == {"t1", "t2"}

DomainNames == {"x", "y"}
ThreadPairs == {<<"a", "c">>, <<"c", "a">>}

\* graphs with a way from the first principle to the rule, whose first
\* principle lists no domain, one, or two
ConcurrentPayloads ==
    {LET links == Picked(SearchEnds, keep, 1)
     IN Payload(Groups,
                <<[Def("n1", "a") EXCEPT !.domains = ds],
                  [Def("n2", "b") EXCEPT !.domains = <<"y">>]>>,
                StdRules, <<>>, <<>>,
                [i \in 1..Len(links) |->
                    Rel(LinkIds[i], links[i][1], "target_node",
                        <<links[i][2]>>)],
                <<>>) :
        keep \in {S \in SUBSET (1..Len(SearchEnds)) :
                     {2, 5} \subseteq S /\ Cardinality(S) <= MaxLinks},
        ds \in {<<>>, <<"x">>, <<"x", "y">>}}

ConcurrentInit ==
    /\ payload \in ConcurrentPayloads
    /\ pc = "done"
    /\ Loaded
    /\ result = [t \in Threads |-> NoResult]

\* an iterator that every running scan advances
Cursor_Shared(frames, t) ==
    LET scanning == {u \in Threads :
                        /\ frames[u].op = "find_principles_by_domain"
                        /\ frames[u].status = "running"}
        at == {frames[u].value[1].i : u \in scanning}
    IN CHOOSE i \in at : \A j \in at : j <= i

\* the place of a call's own iterator over self.graph.nodes(data=True)
Cursor(frames, t) == frames[t].value[1].i

Running(t, op) == result[t].op = op /\ result[t].status = "running"

Snapshot ==
    <<payload, pc, graph_nodes, node_attr, graph_edges, hyperedges,
      node_index, stats>>

\* a thread calls find_principles_by_domain: results = []
BeginScan ==
    \E t \in Threads, domain \in DomainNames :
        /\ result[t] = NoResult
        /\ result' = [result EXCEPT ![t] =
                         [op |-> "find_principles_by_domain",
                          args |-> <<domain>>, status |-> "running",
                          value |-> <<[i |-> 1, results |-> <<>>]>>]]
        /\ UNCHANGED Snapshot

\* one turn of its loop over the nodes, or the return after the last
StepScan ==
    \E t \in Threads :
        /\ Running(t, "find_principles_by_domain")
        /\ LET i == Cursor(result, t)
               frame == result[t].value[1]
           IN result' = [result EXCEPT ![t] =
                 IF i > Len(graph_nodes)
                 THEN [@ EXCEPT !.status = "ok", !.value = frame.results]
                 ELSE [@ EXCEPT !.value =
                          <<[i |-> i + 1,
                             results |-> ScanNode(node_attr, frame.results,
                                                  graph_nodes[i],
                                                  result[t].args[1])]>>]]
        /\ UNCHANGED Snapshot

\* a thread calls find_all_paths: the names are looked up, the search begins
BeginPaths ==
    \E t \in Threads, q \in ThreadPairs, max_length \in 0..MaxLength :
        /\ result[t] = NoResult
        /\ result' = [result EXCEPT ![t] =
                         [op |-> "find_all_paths",
                          args |-> <<q[1], q[2], max_length>>,
                          status |-> "running",
                          value |-> <<SimplePathsStart(node_index[q[1]])>>]]
        /\ UNCHANGED Snapshot

\* one turn of the search, or the detailed paths after the last
StepPaths ==
    \E t \in Threads :
        /\ Running(t, "find_all_paths")
        /\ LET frame == result[t].value[1]
               ended == PathsOutcome(node_attr, [status |-> "ok",
                                                 paths |-> frame.found])
           IN result' = [result EXCEPT ![t] =
                 IF frame.stack = <<>>
                 THEN [@ EXCEPT !.status = ended.status,
                                !.value = ended.value]
                 ELSE [@ EXCEPT !.value =
                          <<SimplePathsStep(graph_edges, frame,
                                            node_index[result[t].args[2]],
                                            result[t].args[3])>>]]
        /\ UNCHANGED Snapshot

\* a thread calls build_inference_chain
BeginChain ==
    \E t \in Threads, q \in ThreadPairs :
        /\ result[t] = NoResult
        /\ result' = [result EXCEPT ![t] =
                         [op |-> "build_inference_chain", args |-> q,
                          status |-> "running",
                          value |-> <<PredSuccStart(node_index[q[1]],
                                                    node_index[q[2]])>>]]
        /\ UNCHANGED Snapshot

\* the path shortest_path returns when its loop has ended
PathOf(frame) ==
    IF frame.found
    THEN [status |-> "ok",
          path |-> Reverse(Follow(frame.pred, frame.w))
                   \o Tail(Follow(frame.succ, frame.w))]
    ELSE [status |-> "NetworkXNoPath", path |-> <<>>]

\* one turn of the shortest-path loop, or the chain after the last
StepChain ==
    \E t \in Threads :
        /\ Running(t, "build_inference_chain")
        /\ LET frame == result[t].value[1]
               ended == ChainOutcome(node_attr, graph_edges, PathOf(frame))
           IN result' = [result EXCEPT ![t] =
                 IF PredSuccEnded(frame)
                 THEN [@ EXCEPT !.status = ended.status,
                                !.value = ended.value]
                 ELSE [@ EXCEPT !.value =
                          <<PredSuccStep(graph_edges, frame)>>]]
        /\ UNCHANGED Snapshot

\* the caller of a thread takes its answer
TakeAnswer ==
    \E t \in Threads :
        /\ result[t].status \notin {"none", "running"}
        /\ result' = [result EXCEPT ![t] = NoResult]
        /\ UNCHANGED Snapshot

ConcurrentNext ==
    \/ BeginScan
    \/ StepScan
    \/ BeginPaths
    \/ StepPaths
    \/ BeginChain
    \/ StepChain
    \/ TakeAnswer

ConcurrentSpec == ConcurrentInit /\ [][ConcurrentNext]_vars

(***************************************************************************)
(* Notions the properties are stated with.                                 *)
(***************************************************************************)
NodeSet == SeqToSet(graph_nodes)
EdgeIdx == 1..Len(graph_edges)

\* the reference names, by name or by raw id, a node of the graph
RefExists(ref) ==
    (IF ref \in DOMAIN node_index THEN node_index[ref] ELSE ref) \in NodeSet

\* the edges made for the hyperedge record with this id
EdgesOf(hid) == {i \in EdgeIdx : graph_edges[i].hyperedge_id = hid}

\* the length of the target list of a relationship record, as normalized
TargetCount(rel) == IF rel.form = "target_nodes" THEN Len(rel.targets) ELSE 1

TargetAt(rel, i) == IF rel.form = "neither" THEN NoneRef ELSE rel.targets[i]

ExistingTargets(rel) == {i \in 1..TargetCount(rel) : RefExists(TargetAt(rel, i))}

RelsOf(doc) == {doc.relationships[i] : i \in 1..Len(doc.relationships)}
DerivsOf(doc) == {doc.derivations[i] : i \in 1..Len(doc.derivations)}

NodesLoaded == pc \in {"relationships", "derivations", "statistics", "done"}
RelationshipsLoaded == pc \in {"derivations", "statistics", "done"}
DerivationsLoaded == pc \in {"statistics", "done"}

(***************************************************************************)
(* C1: in every state reached during or after the build, every edge of     *)
(* the graph has its source and its target in the node set.                *)
(***************************************************************************)
C1_NoDanglingEdge ==
    \A i \in EdgeIdx :
        graph_edges[i].u \in NodeSet /\ graph_edges[i].v \in NodeSet

\* a build that met references to nothing and still made edges
C1_Witness ==
    /\ pc = "done"
    /\ graph_edges # <<>>
    /\ \E rel \in RelsOf(payload) :
          \E i \in 1..TargetCount(rel) : ~RefExists(TargetAt(rel, i))

(***************************************************************************)
(* C2, as claimed: every relationship or derivation record that has a      *)
(* participant naming no existing node is in the retained hyperedge list   *)
(* once the build is done.                                                 *)
(***************************************************************************)
HasUnresolvedParticipant(h) ==
    IF h.hyperedge_type = "relationship"
    THEN \/ ~RefExists(h.source_node)
         \/ \E i \in 1..TargetCount(h) : ~RefExists(TargetAt(h, i))
    ELSE \/ ~RefExists(h.target_node)
         \/ \E i \in 1..Len(h.source_nodes) : ~RefExists(h.source_nodes[i])

C3_EdgesEqualExistingTargets ==
    RelationshipsLoaded =>
        \A rel \in RelsOf(payload) :
            TargetCount(rel) > 1 =>
                Cardinality(EdgesOf(rel.hyperedge_id))
                    = Cardinality(ExistingTargets(rel))

(***************************************************************************)
(* C3, amended: a relationship record with more than one target whose      *)
(* source names an existing node has one edge per target naming an         *)
(* existing node, to that node, whatever the other targets are; a record   *)
(* whose source names no existing node has no edge.                        *)
(***************************************************************************)
C3_EdgesEqualExistingTargetsOfKnownSource ==
    RelationshipsLoaded =>
        \A rel \in RelsOf(payload) :
            TargetCount(rel) > 1 =>
                IF RefExists(rel.source_node)
                THEN /\ Cardinality(EdgesOf(rel.hyperedge_id))
                           = Cardinality(ExistingTargets(rel))
                     /\ \A t \in ExistingTargets(rel) :
                           \E i \in EdgesOf(rel.hyperedge_id) :
                              graph_edges[i].v
                                 = Resolve(node_index, TargetAt(rel, t))
                ELSE EdgesOf(rel.hyperedge_id) = {}

\* an unknown target ahead of a known one, and the known one is joined
C3_Witness ==
    /\ pc = "done"
    /\ \E rel \in RelsOf(payload) :
          /\ TargetCount(rel) > 1
          /\ RefExists(rel.source_node)
          /\ ~RefExists(TargetAt(rel, 1))
          /\ RefExists(TargetAt(rel, 2))
          /\ EdgesOf(rel.hyperedge_id) # {}

(***************************************************************************)
(* C4: after the build the retained list is the relationship records with  *)
(* more than one normalized target, in payload order and as given,         *)
(* followed by every derivation record, whatever edges were made.          *)
(***************************************************************************)
C4_RetainedList ==
    DerivationsLoaded =>
        hyperedges =
            SelectSeq(payload.relationships, LAMBDA r : TargetCount(r) > 1)
            \o payload.derivations

\* two retained relationships, one dropped record, a derivation without edge
C4_Witness ==
    /\ pc = "done"
    /\ Len(hyperedges) >= 3
    /\ hyperedges[1].hyperedge_type = "relationship"
    /\ hyperedges[2].hyperedge_type = "relationship"
    /\ \E d \in DerivsOf(payload) : EdgesOf(d.hyperedge_id) = {}
    /\ Len(hyperedges) < Len(payload.relationships) + Len(payload.derivations)
           \/ \E r \in RelsOf(payload) : EdgesOf(r.hyperedge_id) = {}

(***************************************************************************)
(* C5, as claimed: when the build ends in the error of a missing group,    *)
(* the builder's graph, hyperedge list, name index and statistics hold     *)
(* nothing of the payload.                                                 *)
(***************************************************************************)
C5_NoPartialResult ==
    pc = "error" =>
        /\ graph_nodes = <<>>
        /\ graph_edges = <<>>
        /\ hyperedges = <<>>
        /\ DOMAIN node_index = {}
        /\ stats.total_nodes = NoNumber

(***************************************************************************)
(* C6, as claimed: a payload that has the four required groups builds      *)
(* without error, whether or not it has nodes.concepts and nodes.domains.  *)
(***************************************************************************)
RequiredGroups == {"principles", "rules", "relationships", "derivations"}

C6_OptionalGroupsMayBeOmitted ==
    RequiredGroups \subseteq payload.present => pc # "error"

(***************************************************************************)
(* C7: once the nodes are loaded, the name index has exactly the names     *)
(* the definitions carry, each mapped to the node id of the last           *)
(* definition with that name in the order principles, rules, concepts,     *)
(* domains (payload order within a group), and every value is a node of    *)
(* the graph; a definition without a name adds no entry.                   *)
(***************************************************************************)
AllDefs ==
    payload.principles \o payload.rules \o payload.concepts \o payload.domains

LastWithName(name) ==
    CHOOSE i \in 1..Len(AllDefs) :
        /\ AllDefs[i].name = name
        /\ \A j \in (i + 1)..Len(AllDefs) : AllDefs[j].name # name

C7_IndexLastWriteWins ==
    NodesLoaded =>
        /\ DOMAIN node_index
              = {AllDefs[i].name : i \in 1..Len(AllDefs)} \ {Absent}
        /\ \A name \in DOMAIN node_index :
              /\ node_index[name] = AllDefs[LastWithName(name)].node_id
              /\ node_index[name] \in NodeSet

\* a principle and a later node of another group share a name
C7_Witness ==
    /\ pc = "done"
    /\ \E i, j \in 1..Len(AllDefs) :
          /\ i < j
          /\ AllDefs[i].name = AllDefs[j].name
          /\ AllDefs[i].name # Absent
          /\ AllDefs[i].node_id # AllDefs[j].node_id
          /\ node_index[AllDefs[i].name] = AllDefs[j].node_id
    /\ \E d \in SeqToSet(payload.principles) :
          \E e \in SeqToSet(payload.rules) \cup SeqToSet(payload.concepts)
                   \cup SeqToSet(payload.domains) :
              d.name = e.name /\ d.node_id # e.node_id

(***************************************************************************)
(* C8, as claimed: every endpoint reference, the target_node of a          *)
(* derivation included, is resolved through the name index (the indexed    *)
(* id if the reference is a key, the reference itself otherwise), so a     *)
(* record whose endpoints so resolved both exist has the edge between      *)
(* them.                                                                   *)
(***************************************************************************)
ResolvedRef(ref) == IF ref \in DOMAIN node_index THEN node_index[ref] ELSE ref

HasEdge(hid, u, v) ==
    \E i \in EdgesOf(hid) : graph_edges[i].u = u /\ graph_edges[i].v = v

C8_EveryEndpointResolved ==
    DerivationsLoaded =>
        /\ \A rel \in RelsOf(payload) :
              \A i \in 1..TargetCount(rel) :
                 RefExists(rel.source_node) /\ RefExists(TargetAt(rel, i))
                 => HasEdge(rel.hyperedge_id, ResolvedRef(rel.source_node),
                            ResolvedRef(TargetAt(rel, i)))
        /\ \A d \in DerivsOf(payload) :
              \A i \in 1..Len(d.source_nodes) :
                 RefExists(d.source_nodes[i]) /\ RefExists(d.target_node)
                 => HasEdge(d.hyperedge_id, ResolvedRef(d.source_nodes[i]),
                            ResolvedRef(d.target_node))

(***************************************************************************)
(* Directed distance in the graph, by levels of reachable sets.            *)
(***************************************************************************)
StepSet(S) ==
    {graph_edges[i].v : i \in {j \in EdgeIdx : graph_edges[j].u \in S}}

RECURSIVE LevelOf(_, _, _, _)
LevelOf(frontier, seen, target, k) ==
    IF target \in frontier THEN k
    ELSE IF frontier = {} THEN NoNumber
    ELSE LevelOf(StepSet(frontier) \ seen, seen \cup StepSet(frontier),
                 target, k + 1)

\* the least number of edges of a directed path, NoNumber if there is none
Distance(source, target) == LevelOf({source}, {source}, target, 0)

Resolved(name) == name \in DOMAIN node_index

Connected(start, end) ==
    /\ Resolved(start)
    /\ Resolved(end)
    /\ Distance(node_index[start], node_index[end]) # NoNumber

(***************************************************************************)
(* C9: when both names resolve and the end node is reachable from the      *)
(* start node, build_inference_chain returns a chain whose nodes are a     *)
(* directed path from start to end with the least possible number of       *)
(* edges.                                                                  *)
(***************************************************************************)
C9_ChainIsShortestPath ==
    (result.op = "build_inference_chain"
     /\ Connected(result.args[1], result.args[2]))
    => /\ result.status = "ok"
       /\ Len(result.value)
             = Distance(node_index[result.args[1]],
                        node_index[result.args[2]]) + 1
       /\ result.value[1].id = node_index[result.args[1]]
       /\ result.value[Len(result.value)].id = node_index[result.args[2]]
       /\ \A i \in 1..(Len(result.value) - 1) :
             \E j \in EdgeIdx :
                /\ graph_edges[j].u = result.value[i].id
                /\ graph_edges[j].v = result.value[i + 1].id

\* a chain of one edge where a path of two edges leaves the start first
C9_Witness ==
    /\ result.op = "build_inference_chain"
    /\ result.status = "ok"
    /\ Len(result.value) = 2
    /\ LET s == result.value[1].id
           t == result.value[2].id
       IN /\ s # t
          /\ \E m \in NodeSet \ {s, t} :
                /\ graph_edges[1].u = s /\ graph_edges[1].v = m
                /\ \E j \in EdgeIdx :
                      graph_edges[j].u = m /\ graph_edges[j].v = t

(***************************************************************************)
(* C10: when a name is not in the index or the end node cannot be reached  *)
(* from the start node, build_inference_chain returns none and             *)
(* find_all_paths returns the empty list; no query raises.                 *)
(***************************************************************************)
C10_NotFoundIsEmpty ==
    /\ result.status # "raise"
    /\ (result.op = "build_inference_chain"
        /\ ~Connected(result.args[1], result.args[2]))
       => result.status = "none"
    /\ (result.op = "find_all_paths"
        /\ ~Connected(result.args[1], result.args[2]))
       => result.status = "ok" /\ result.value = <<>>

\* both names resolve, there are edges, and the end cannot be reached
C10_Witness ==
    /\ result.op = "build_inference_chain"
    /\ Resolved(result.args[1])
    /\ Resolved(result.args[2])
    /\ ~Connected(result.args[1], result.args[2])
    /\ \E j \in EdgeIdx : graph_edges[j].v = node_index[result.args[1]]
    /\ result.status = "none"

(***************************************************************************)
(* Notions for the confidence of a chain.                                  *)
(***************************************************************************)
\* every factor of a chain: the steps' confidences, then the edges'
\* confidence impacts, a missing one counting as 1.0
FactorsOf(chain) ==
    [i \in 1..Len(chain) |-> GetNum(chain[i].confidence, FullConfidence)]
    \o [i \in 1..(Len(chain) - 1) |->
           GetNum(chain[i].edge_to_next.confidence_impact, FullConfidence)]

RECURSIVE ProductOf(_)
ProductOf(fs) ==
    IF fs = <<>> THEN One ELSE Times(ProductOf(Tail(fs)), Head(fs))

\* r units of 0.0001 are exactly the fraction x
IsExactly(r, x) == 10000 % x.den = 0 /\ r = x.num * (10000 \div x.den)

Computed == result.op = "compute_path_confidence"

(***************************************************************************)
(* C11 as stated: for every chain of two or more steps                     *)
(* compute_path_confidence returns the plain product of every step's       *)
(* confidence and every edge's confidence_impact, a missing factor         *)
(* counting as 1.0.                                                        *)
(***************************************************************************)
C11_PlainProduct ==
    (Computed /\ Len(result.args[1]) >= 2)
    => IsExactly(result.value[1], ProductOf(FactorsOf(result.args[1])))

(***************************************************************************)
(* C11: for every chain of two or more steps compute_path_confidence       *)
(* returns the product of every step's confidence and every edge's         *)
(* confidence_impact (a missing factor counting as 1.0) rounded to four    *)
(* decimal places, with no other combination rule.                         *)
(***************************************************************************)
C11_ProductRoundedToFourPlaces ==
    (Computed /\ Len(result.args[1]) >= 2)
    => result.value[1] \in Rounded(ProductOf(FactorsOf(result.args[1])))

\* a chain of two steps whose product has more than four decimal places
C11_Witness ==
    /\ Computed
    /\ Len(result.args[1]) = 2
    /\ ~IsExactly(result.value[1], ProductOf(FactorsOf(result.args[1])))
    /\ result.value[1] > 0

(***************************************************************************)
(* C12: compute_path_confidence returns 1.0 for the empty chain and for    *)
(* every chain of a single node, whatever the node's confidence.           *)
(***************************************************************************)
C12_SingleNodeIsOne ==
    (Computed /\ Len(result.args[1]) <= 1) => result.value[1] = 10000

(***************************************************************************)
(* C13: in the snapshot built from principle P1 of confidence 1.0,         *)
(* principle P2, rule R1 of confidence 0.95 and one derivation from P1 to  *)
(* R1 with confidence_impact 0.95, the chain from P1 to R1 has exactly 2   *)
(* steps and its confidence is 0.95.                                       *)
(***************************************************************************)
C13_ScenarioConfidence ==
    (payload = ScenarioPayload
     /\ Computed
     /\ result.args[1] # <<>>
     /\ result.args[1][1].name = "a"
     /\ result.args[1][Len(result.args[1])].name = "c")
    => Len(result.args[1]) = 2 /\ result.value[1] = 9500

(***************************************************************************)
(* C14 as stated: when every factor of a chain and both factors of one     *)
(* further step are at most 1.0, the confidence of the chain with the      *)
(* further step is at most the confidence of the chain.                    *)
(***************************************************************************)
C14_NonIncreasingAtMostOne ==
    (Computed /\ Len(result.args) = 3
     /\ \A f \in SeqToSet(FactorsOf(result.args[1])) : f <= 100)
    => result.value[1] <= result.args[3]

(***************************************************************************)
(* C14: when every factor of a chain and both factors of one further step  *)
(* lie between 0 and 1.0, the confidence of the chain with the further     *)
(* step is at most the confidence of the chain.                            *)
(***************************************************************************)
C14_NonIncreasingInUnitRange ==
    (Computed /\ Len(result.args) = 3
     /\ \A f \in SeqToSet(FactorsOf(result.args[1])) : f >= 0 /\ f <= 100)
    => result.value[1] <= result.args[3]

\* a further step with factors below 1.0 makes a positive confidence smaller
C14_Witness ==
    /\ Computed
    /\ Len(result.args) = 3
    /\ \A f \in SeqToSet(FactorsOf(result.args[1])) : f >= 0 /\ f <= 100
    /\ result.value[1] > 0
    /\ result.value[1] < result.args[3]

(***************************************************************************)
(* Notions for the paths of the graph.                                     *)
(***************************************************************************)
\* the paths of `paths` with one more edge at their end, no node twice
Grown(paths) ==
    {Append(x[1], x[2].v) :
        x \in {y \in paths \X SeqToSet(graph_edges) :
                  /\ y[2].u = y[1][Len(y[1])]
                  /\ y[2].v \notin SeqToSet(y[1])}}

RECURSIVE PathsWithin(_, _)
\* the directed paths from source that repeat no node, of at most k edges
PathsWithin(source, k) ==
    IF k <= 0 THEN {<<source>>}
    ELSE LET shorter == PathsWithin(source, k - 1)
         IN shorter \cup Grown(shorter)

SimplePathSet(source, target, k) ==
    {p \in PathsWithin(source, k) : p[Len(p)] = target}

\* the node sequence of a returned path
NodesOf(path) == [i \in 1..Len(path) |-> path[i].id]

ReturnedPaths == {NodesOf(result.value[i]) : i \in 1..Len(result.value)}

AllPathsAsked ==
    /\ result.op = "find_all_paths"
    /\ Resolved(result.args[1])
    /\ Resolved(result.args[2])

(***************************************************************************)
(* C15: for resolved names a and b and any k, the node sequences           *)
(* find_all_paths(a, b, k) returns are exactly the directed paths from a   *)
(* to b that repeat no node and have at most k edges.                      *)
(***************************************************************************)
C15_ExactlyTheBoundedSimplePaths ==
    AllPathsAsked
    => /\ result.status = "ok"
       /\ ReturnedPaths = SimplePathSet(node_index[result.args[1]],
                                        node_index[result.args[2]],
                                        result.args[3])

\* a path is returned and a longer simple path is left out
C15_Witness ==
    /\ AllPathsAsked
    /\ ReturnedPaths # {}
    /\ result.args[1] # result.args[2]
    /\ SimplePathSet(node_index[result.args[1]], node_index[result.args[2]],
                     result.args[3] + 1) # ReturnedPaths

\* find_all_paths for the names of the answered call, with another max_length
PathsWith(max_length) ==
    find_all_paths(node_index, graph_nodes, node_attr, graph_edges,
                   result.args[1], result.args[2], max_length).value

(***************************************************************************)
(* C16: on the same snapshot and for the same names, whenever k1 <= k2     *)
(* every path find_all_paths returns for k1 is returned, with identical    *)
(* steps, for k2.                                                          *)
(***************************************************************************)
C16_LargerMaxLengthOnlyAdds ==
    result.op = "find_all_paths"
    => \A k2 \in result.args[3]..(MaxLength + 1) :
          LET larger == SeqToSet(PathsWith(k2))
          IN \A i \in 1..Len(result.value) : result.value[i] \in larger

\* a path is returned and a larger max_length returns more paths
C16_Witness ==
    /\ result.op = "find_all_paths"
    /\ result.value # <<>>
    /\ Len(PathsWith(result.args[3] + 1)) > Len(result.value)

(***************************************************************************)
(* Notions for the searches in progress.                                   *)
(***************************************************************************)
NoRepeat(q) == \A i, j \in 1..Len(q) : q[i] = q[j] => i = j

\* the all-paths search holds and yields only paths of at most cutoff
\* edges without a repeated node, and ends with the paths the query gets
AllPathsBounded ==
    result.op = "all_simple_paths"
    => LET st == result.value[1]
           cutoff == result.args[3]
       IN /\ NoRepeat(st.current_path)
          /\ Len(st.current_path) - 1 <= cutoff
          /\ \A i \in 1..Len(st.found) :
                NoRepeat(st.found[i]) /\ Len(st.found[i]) - 1 <= cutoff
          /\ result.status = "ok"
             => st.found = AllSimplePaths(graph_nodes, graph_edges,
                                          result.args[1], result.args[2],
                                          cutoff).paths

\* the shortest-path search expands no node twice, and ends as the query
\* sees it end
ShortestBounded ==
    result.op = "shortest_path"
    => LET st == result.value[1]
           sp == ShortestPath(graph_nodes, graph_edges, result.args[1],
                              result.args[2])
       IN /\ NoRepeat(st.expanded)
          /\ result.status # "running" => result.status = sp.status
          /\ result.status = "ok"
             => Reverse(Follow(st.pred, st.w)) \o Tail(Follow(st.succ, st.w))
                = sp.path

(***************************************************************************)
(* C17: find_all_paths and build_inference_chain terminate on every        *)
(* finite graph, with directed cycles, self-loops and parallel edges: the  *)
(* all-paths search never extends a path beyond max_length edges or        *)
(* through a node already on it, the shortest-path search expands each     *)
(* node at most once, and a search that has begun ends.                    *)
(***************************************************************************)
C17_SearchesTerminate ==
    /\ [](AllPathsBounded /\ ShortestBounded)
    /\ (result.status = "running") ~> (result.status # "running")

\* an all-paths search has ended with a path on a graph with a cycle
C17_Witness ==
    /\ result.op = "all_simple_paths"
    /\ result.status = "ok"
    /\ result.value[1].found # <<>>
    /\ \E i, j \in EdgeIdx :
          /\ graph_edges[i].u # graph_edges[i].v
          /\ graph_edges[i].u = graph_edges[j].v
          /\ graph_edges[i].v = graph_edges[j].u

(***************************************************************************)
(* Case-insensitive occurrence, letter by letter: two characters are the   *)
(* same letter when they are equal or the two cases of one letter.         *)
(***************************************************************************)
SameLetter(c, d) ==
    \/ c = d
    \/ \E k \in 1..Len(UpperCase) : {c, d} = {UpperCase[k], LowerCase[k]}

Occurs(word, text) ==
    \E k \in 0..(Len(text) - Len(word)) :
        \A i \in 1..Len(word) : SameLetter(word[i], text[k + i])

NameOf(n) == Chars(node_attr[n].name)
DescriptionOf(n) == Chars(Get(node_attr[n].description, EmptyStr))

Unfiltered ==
    /\ result.op = "search_by_keyword"
    /\ result.args[2] = NoneRef

(***************************************************************************)
(* C18: search_by_keyword without a node-type filter returns exactly the   *)
(* nodes whose name or description contains the keyword, letter case       *)
(* ignored, each node once; a hit has relevance "name" when the name       *)
(* contains the keyword, also when the description does too, and           *)
(* "description" only when the name does not.                              *)
(***************************************************************************)
C18_ExactlyTheMatchingNodes ==
    Unfiltered
    => LET keyword == Chars(result.args[1])
           hits == result.value
       IN /\ result.status = "ok"
          /\ {hits[i].id : i \in 1..Len(hits)}
             = {n \in NodeSet : \/ Occurs(keyword, NameOf(n))
                                \/ Occurs(keyword, DescriptionOf(n))}
          /\ \A i, j \in 1..Len(hits) : hits[i].id = hits[j].id => i = j
          /\ \A i \in 1..Len(hits) :
                hits[i].relevance
                = IF Occurs(keyword, NameOf(hits[i].id))
                  THEN "name" ELSE "description"

\* a keyword in another case than the texts: one node is hit by its name
\* though its description matches too, one by its description alone, and
\* the keyword itself is in neither text as written
C18_Witness ==
    /\ Unfiltered
    /\ \E i, j \in 1..Len(result.value) :
          /\ result.value[i].relevance = "name"
          /\ Occurs(Chars(result.args[1]), DescriptionOf(result.value[i].id))
          /\ ~Contains(Chars(result.args[1]), NameOf(result.value[i].id))
          /\ result.value[j].relevance = "description"
          /\ ~Contains(Chars(result.args[1]),
                       DescriptionOf(result.value[j].id))

(***************************************************************************)
(* The edges that leave the node a lookup resolved its name to, and how    *)
(* many of the views of the answer, and of these edges, lead to a node     *)
(* with a given annotation.                                                *)
(***************************************************************************)
Lookup(op) == result.op = op /\ result.args[1] \in DOMAIN node_index

LeavingEdges ==
    {i \in EdgeIdx : graph_edges[i].u = node_index[result.args[1]]}

ViewsTo(n) == {i \in 1..Len(result.value) : result.value[i].id = n}

(***************************************************************************)
(* C19: find_rules_derived_from_principle(name) is empty for a name not    *)
(* in the index; otherwise it has one view for each outgoing derivation    *)
(* edge of the resolved node, with the edge's target as id and the edge's  *)
(* inference_type, and no view for a relationship edge or an incoming      *)
(* edge.                                                                   *)
(***************************************************************************)
C19_OneViewPerDerivationEdge ==
    result.op = "find_rules_derived_from_principle"
    => /\ result.status = "ok"
       /\ result.args[1] \notin DOMAIN node_index => result.value = <<>>
       /\ result.args[1] \in DOMAIN node_index
          => LET derivations ==
                     {i \in LeavingEdges :
                         graph_edges[i].edge_type = "derivation"}
             IN /\ Len(result.value) = Cardinality(derivations)
                /\ \A n \in NodeSet, t \in {"deductive", "inductive",
                                              "abductive"} :
                      Cardinality({i \in ViewsTo(n) :
                                     result.value[i].inference_type = t})
                      = Cardinality({i \in derivations :
                                       /\ graph_edges[i].v = n
                                       /\ graph_edges[i].inference_type
                                          = t})

\* two derivations of one rule from the asked principle, with different
\* inference types, beside a relationship that leaves it and an edge
\* that arrives at it from another node
C19_Witness ==
    /\ Lookup("find_rules_derived_from_principle")
    /\ Len(result.value) = 2
    /\ result.value[1].inference_type # result.value[2].inference_type
    /\ \E i \in LeavingEdges : graph_edges[i].edge_type = "relationship"
    /\ \E i \in EdgeIdx :
          /\ graph_edges[i].v = node_index[result.args[1]]
          /\ graph_edges[i].u # graph_edges[i].v

(***************************************************************************)
(* C20: find_related_principles(name) has one view for each outgoing       *)
(* relationship edge of the resolved node whose target is a principle,     *)
(* with the edge's relationship_name and strength; a target of another     *)
(* node type and a derivation edge give no view, and a name not in the     *)
(* index gives the empty list.                                             *)
(***************************************************************************)
C20_OneViewPerRelatedPrinciple ==
    result.op = "find_related_principles"
    => /\ result.status = "ok"
       /\ result.args[1] \notin DOMAIN node_index => result.value = <<>>
       /\ result.args[1] \in DOMAIN node_index
          => LET related ==
                     {i \in LeavingEdges :
                         /\ graph_edges[i].edge_type = "relationship"
                         /\ node_attr[graph_edges[i].v].node_type
                            = "principle"}
             IN /\ Len(result.value) = Cardinality(related)
                /\ \A n \in NodeSet,
                      r \in {"related-to", "supports", "limits"},
                      x \in {Strength, 50, 100} :
                      Cardinality({i \in ViewsTo(n) :
                                     /\ result.value[i].relationship = r
                                     /\ result.value[i].strength = x})
                      = Cardinality({i \in related :
                                       /\ graph_edges[i].v = n
                                       /\ graph_edges[i].relationship_name
                                          = r
                                       /\ graph_edges[i].strength = x})

\* a named relationship to a principle is returned with its name and
\* strength, while a relationship to the rule and a derivation leave the
\* same node
C20_Witness ==
    /\ Lookup("find_related_principles")
    /\ \E i \in 1..Len(result.value) :
          /\ result.value[i].relationship = "supports"
          /\ result.value[i].strength = 50
    /\ \E i \in LeavingEdges :
          /\ graph_edges[i].edge_type = "relationship"
          /\ node_attr[graph_edges[i].v].node_type = "rule"
    /\ \E i \in LeavingEdges : graph_edges[i].edge_type = "derivation"

(***************************************************************************)
(* C21: a snapshot exported and loaded back has the nodes with their       *)
(* attributes, the edges with their attributes, keys and order, the        *)
(* hyperedge list and the name index of the original, for the pickle and   *)
(* for the JSON export.                                                    *)
(***************************************************************************)
C21_RoundTripOfBothForms ==
    result.op = "HypergraphQuery"
    => /\ result.status = "ok"
       /\ result.value[1].nodes = graph_nodes
       /\ result.value[1].attr = node_attr
       /\ result.value[1].edges = graph_edges
       /\ result.value[1].hyperedges = hyperedges
       /\ result.value[1].index = node_index

(***************************************************************************)
(* C22.  Queries never change the snapshot: in every step of every         *)
(* interleaving of the calls of two threads the graph, the hyperedge       *)
(* list, the name index and the statistics stay as they are, and the       *)
(* answer a call ends with is the answer the same call gives when it runs  *)
(* alone on the snapshot.                                                  *)
(***************************************************************************)
Alone(r) ==
    CASE r.op = "find_principles_by_domain" ->
           find_principles_by_domain(graph_nodes, node_attr, r.args[1])
      [] r.op = "find_all_paths" ->
           find_all_paths(node_index, graph_nodes, node_attr, graph_edges,
                          r.args[1], r.args[2], r.args[3])
      [] r.op = "build_inference_chain" ->
           build_inference_chain(node_index, graph_nodes, node_attr,
                                 graph_edges, r.args[1], r.args[2])

C22_QueriesLeaveTheSnapshot ==
    /\ [][UNCHANGED <<graph_nodes, node_attr, graph_edges, hyperedges,
                      node_index, stats>>]_vars
    /\ [](\A t \in Threads :
             result[t].status \notin {"none", "running"} =>
                 /\ result[t].status = Alone(result[t]).status
                 /\ result[t].value = Alone(result[t]).value)

\* a scan has ended with a principle while the other thread's path search,
\* begun and not ended, has found a path
C22_Witness ==
    \E t, u \in Threads :
        /\ result[t].op = "find_principles_by_domain"
        /\ result[t].status = "ok"
        /\ result[t].value # <<>>
        /\ Running(u, "find_all_paths")
        /\ result[u].value[1].found # <<>>
        /\ result[u].value[1].stack # <<>>

(***************************************************************************)
(* C23.  The statistics of a finished build count what the graph holds:    *)
(* total_nodes is the number of distinct nodes, total_edges the number of  *)
(* edges (parallel edges counted each), total_hyperedges the number of     *)
(* retained hyperedge records; and on the empty graph the counts are       *)
(* zero, the per-type and per-level counts are empty, average_degree and   *)
(* density are 0 and is_connected is false.                                *)
(***************************************************************************)
C23_StatisticsOfTheBuild ==
    pc = "done" =>
        /\ stats.total_nodes = Cardinality(SeqToSet(graph_nodes))
        /\ stats.total_edges =
               Cardinality({<<e.u, e.v, e.key>> : e \in SeqToSet(graph_edges)})
        /\ stats.total_hyperedges = Cardinality(DOMAIN hyperedges)
        /\ graph_nodes = <<>> =>
               /\ stats.total_nodes = 0
               /\ stats.total_edges = 0
               /\ stats.node_types = EmptyMap
               /\ stats.edge_types = EmptyMap
               /\ stats.levels = EmptyMap
               /\ stats.average_degree = 0
               /\ stats.density = 0
               /\ stats.is_connected = FALSE

\* a build that made no node and kept a hyperedge record has ended
C23_Witness ==
    /\ pc = "done"
    /\ graph_nodes = <<>>
    /\ hyperedges # <<>>
    /\ stats.total_hyperedges = Len(hyperedges)

\* a build with parallel edges has ended
C23_Counted ==
    /\ pc = "done"
    /\ \E e \in SeqToSet(graph_edges) : e.key > 0
    /\ stats.total_edges = Len(graph_edges)

(***************************************************************************)
(* C24.  In a chain build_inference_chain returns, the edge data of a      *)
(* step is the data of the edge from the step's node to the next step's    *)
(* node that the build inserted first, whatever edges were inserted        *)
(* between the two nodes after it.                                         *)
(***************************************************************************)
Between(u, v) ==
    {i \in 1..Len(graph_edges) :
        graph_edges[i].u = u /\ graph_edges[i].v = v}

FirstInserted(u, v) ==
    graph_edges[CHOOSE i \in Between(u, v) : \A j \in Between(u, v) : i <= j]

IsChain == result.op = "build_inference_chain" /\ result.status = "ok"

C24_FirstInsertedEdgeData ==
    IsChain =>
        \A i \in 1..(Len(result.value) - 1) :
            LET e == FirstInserted(result.value[i].id, result.value[i + 1].id)
            IN result.value[i].edge_to_next =
                  [type |-> e.edge_type,
                   inference_type |-> Get(e.inference_type, EmptyStr),
                   confidence_impact |->
                       GetNum(e.confidence_impact, FullConfidence)]

\* a chain with a step whose node has two edges of different types to the
\* next step's node
C24_Witness ==
    /\ IsChain
    /\ \E i \in 1..(Len(result.value) - 1) :
          \E j, k \in Between(result.value[i].id, result.value[i + 1].id) :
              graph_edges[j].edge_type # graph_edges[k].edge_type

(***************************************************************************)
(* C25.  A chain build_inference_chain returns is well formed: it has a    *)
(* step, the steps are numbered 1, 2, ... in order, the first is the node  *)
(* the start name resolves to and the last the node the end name resolves  *)
(* to, every step but the last has an edge of the graph to the next step   *)
(* and carries the type, inference type and confidence impact of such an   *)
(* edge, and the last step carries no edge data.                           *)
(***************************************************************************)
C25_ChainWellFormed ==
    IsChain =>
        LET chain == result.value
            n == Len(chain)
        IN /\ n >= 1
           /\ \A i \in 1..n : chain[i].step = i
           /\ chain[1].id = node_index[result.args[1]]
           /\ chain[n].id = node_index[result.args[2]]
           /\ \A i \in 1..(n - 1) :
                 /\ chain[i].has_edge_to_next
                 /\ \E j \in Between(chain[i].id, chain[i + 1].id) :
                       /\ chain[i].edge_to_next.type =
                              graph_edges[j].edge_type
                       /\ chain[i].edge_to_next.inference_type =
                              Get(graph_edges[j].inference_type, EmptyStr)
                       /\ chain[i].edge_to_next.confidence_impact =
                              GetNum(graph_edges[j].confidence_impact,
                                     FullConfidence)
           /\ ~chain[n].has_edge_to_next

\* a chain of three steps
C25_Witness == IsChain /\ Len(result.value) >= 3

\* a chain of the one step of a name asked to itself
C25_OneStep == IsChain /\ Len(result.value) = 1

(***************************************************************************)
(* C26.  A reference that is the node_id of a node of the graph is         *)
(* attached to that node: every edge of a relationship whose source is     *)
(* such an id leaves that node, a target or a derivation source that is    *)
(* such an id is an end of an edge of its record whenever the other end    *)
(* exists, also when the id is at the same time the name of another node.  *)
(***************************************************************************)
IsNodeId(ref) == ref \in SeqToSet(graph_nodes)

C26_RawIdNeverRedirected ==
    DerivationsLoaded =>
        /\ \A rel \in RelsOf(payload) :
              /\ IsNodeId(rel.source_node) =>
                    \A j \in EdgesOf(rel.hyperedge_id) :
                        graph_edges[j].u = rel.source_node
              /\ \A i \in 1..TargetCount(rel) :
                    IsNodeId(TargetAt(rel, i)) /\ RefExists(rel.source_node)
                    => \E j \in EdgesOf(rel.hyperedge_id) :
                          graph_edges[j].v = TargetAt(rel, i)
        /\ \A d \in DerivsOf(payload) :
              \A i \in 1..Len(d.source_nodes) :
                 IsNodeId(d.source_nodes[i]) /\ IsNodeId(d.target_node)
                 => HasEdge(d.hyperedge_id, d.source_nodes[i], d.target_node)

(***************************************************************************)
(* C27.  When the node groups are loaded the graph has one node for each   *)
(* node_id the payload declares and no other, and the attributes of a      *)
(* node are exactly those of its node_type, also for an id declared more   *)
(* than once or in more than one group.                                    *)
(***************************************************************************)
DeclaredIds ==
    {d.node_id : d \in SeqToSet(payload.principles \o payload.rules
                                 \o payload.concepts \o payload.domains)}

KeysOfType(node_type) ==
    CASE node_type = "principle" -> PrincipleKeys
      [] node_type = "rule" -> RuleKeys
      [] node_type = "concept" -> ConceptKeys
      [] node_type = "domain" -> DomainKeys

C27_OneNodeWithItsTypesAttributes ==
    NodesLoaded =>
        /\ SeqToSet(graph_nodes) = DeclaredIds
        /\ Len(graph_nodes) = Cardinality(DeclaredIds)
        /\ \A n \in SeqToSet(graph_nodes) :
              node_attr[n].keys = KeysOfType(node_attr[n].node_type)

(***************************************************************************)
(* C28.  find_all_paths returns no node sequence twice, also when          *)
(* consecutive nodes of a path are joined by parallel edges.               *)
(***************************************************************************)
C28_EachPathOnce ==
    (result.op = "find_all_paths" /\ result.status = "ok") =>
        \A i, j \in 1..Len(result.value) :
            NodesOf(result.value[i]) = NodesOf(result.value[j]) => i = j

(***************************************************************************)
(* C29.  For two different names a and b: when build_inference_chain(a, b) *)
(* returns a chain of n steps, find_all_paths(a, b, k) returns a path of   *)
(* the same node sequence for every k >= n - 1 and returns no path of      *)
(* fewer than n steps for any k; when it returns None,                     *)
(* find_all_paths(a, b, k) is empty for every k.                           *)
(***************************************************************************)
Lengths == (0 - 1)..(MaxLength + 1)

C29_ChainAmongAllPaths ==
    (result.op = "build_inference_chain" /\ result.args[1] # result.args[2])
    => /\ result.status \in {"ok", "none"}
       /\ \A k \in Lengths :
             LET paths == PathsWith(k)
                 n == Len(result.value)
             IN /\ result.status = "ok" =>
                      /\ k >= n - 1 =>
                            \E i \in 1..Len(paths) :
                                NodesOf(paths[i]) = NodesOf(result.value)
                      /\ \A i \in 1..Len(paths) : Len(paths[i]) >= n
                /\ result.status = "none" => paths = <<>>

\* a chain of three steps: no path for max_length 1, a path for 2
C29_Witness ==
    /\ result.op = "build_inference_chain"
    /\ result.status = "ok"
    /\ Len(result.value) = 3
    /\ PathsWith(1) = <<>>
    /\ PathsWith(2) # <<>>

\* a chain of two steps where max_length 2 returns a longer path as well
C29_LongerPathToo ==
    /\ result.op = "build_inference_chain"
    /\ result.status = "ok"
    /\ Len(result.value) = 2
    /\ \E i \in 1..Len(PathsWith(2)) : Len(PathsWith(2)[i]) = 3

\* two names of one node: the chain and the only path are that node
C29_OneNodeTwoNames ==
    /\ result.op = "build_inference_chain"
    /\ result.args[1] # result.args[2]
    /\ result.status = "ok"
    /\ Len(result.value) = 1
    /\ Len(PathsWith(0)) = 1

\* no chain: a name is unknown, or the end cannot be reached
C29_NoChain ==
    /\ result.op = "build_inference_chain"
    /\ result.status = "none"
    /\ Resolved(result.args[1])
    /\ Resolved(result.args[2])

(***************************************************************************)
(* C30.  A path find_all_paths(a, b, k) returns with the node sequence of  *)
(* the chain build_inference_chain(a, b) has the confidence                *)
(* compute_path_confidence gives for that chain.                           *)
(***************************************************************************)
ChainOfAnswer ==
    build_inference_chain(node_index, graph_nodes, node_attr, graph_edges,
                          result.args[1], result.args[2])

C30_ConfidenceWhicheverQuery ==
    (result.op = "find_all_paths" /\ result.status = "ok"
     /\ ChainOfAnswer.status = "ok")
    => \A i \in 1..Len(result.value) :
          NodesOf(result.value[i]) = NodesOf(ChainOfAnswer.value)
          => compute_path_confidence(result.value[i])
                = compute_path_confidence(ChainOfAnswer.value)

=============================================================================
